---- MODULE Spec2Model ----
(***************************************************************************)
(* VideoDuplicateClean: the similarity search pipeline.                    *)
(*                                                                         *)
(*   OptimizedVideoComparator  src/src/core/optimized_comparator.py        *)
(*   PHashAlgorithm            src/src/algorithms/phash.py                 *)
(*   VideoComparator           src/src/core/video_comparator.py            *)
(*   ComparisonManager         src/src/algorithms/comparison_manager.py    *)
(*   FrameExtractor            src/src/core/frame_extractor.py             *)
(*   OptimizedScanThread       src/src/main.py                             *)
(*                                                                         *)
(* Floating point scores are modelled as exact rationals <<num, den>> in   *)
(* lowest terms; file sizes, durations and widths are small integers.      *)
(***************************************************************************)
EXTENDS Integers, Sequences, FiniteSets, TLC

VARIABLES
    files,            \* the filesystem: path -> file (what the OS and OpenCV report)
    video_files,      \* the list of paths handed to the search
    threshold,        \* similarity_threshold of the call, a rational
    alg,              \* "simple" | "phash" (scan thread) | "full" (console entry point)
    pc,               \* position of the worker inside the search
    video_metadata,   \* find_similar_videos_optimized: path -> metadata
    video_phashes,    \* PHashAlgorithm.find_similar_videos_optimized: path -> hash list
    similar_pairs,    \* the list of result tuples under construction
    candidate_pairs,  \* pairs accepted by the metadata prefilter
    idx,              \* index of the next candidate pair to deep-compare
    returned,         \* the list returned by the search entry point
    emitted,          \* the lists sent through result_signal
    raised,           \* the exception that left the search, or "none"
    prefiltered,      \* history: pairs _are_metadata_similar was asked about, with the answer
    compared,         \* history: pairs given to the expensive comparison, with the score
    weights,          \* ComparisonManager: comparator name -> weight (tenths)
    throwing,         \* ComparisonManager: comparators whose compare() raises
    cmp_result,       \* the last dict returned by compare_images
    meta1, meta2,     \* the arguments of the last _are_metadata_similar call
    meta_result,      \* and its outcome
    phash_calls,      \* history: the paths given to _video_to_phashes, in call order
    mode,             \* the pairwise comparator in use
    video1_path,      \* its first video
    video2_path,      \* its second video
    max_frames,       \* the frame count asked for
    video_result,     \* the dict the comparator returned
    cap,              \* the capture extract_frames works on
    frames_asked,     \* its num_frames argument
    seeks,            \* history: the positions given to cap.set, in order
    extracted,        \* what extract_frames returned
    file_contents,    \* the bytes of the files given to _get_file_hash
    file_hash_cache,  \* _file_hash_cache: file -> the bytes fed to md5
    threshold_text,   \* the threshold as the user typed it
    scan_ui_enabled,  \* set_scan_ui_enabled: the scan button can be clicked
    signals,          \* the signals of the scan thread, in the order of emission
    handled,          \* how many of them the window has handled
    current_pairs,    \* MainWindow.current_pairs
    marked_for_deletion, \* MainWindow.marked_for_deletion
    pair_widgets,     \* path -> the states of its checkboxes on display
    file_reference_count, \* the dict of toggle_mark_deletion, as path-count pairs
    deleted,          \* history: the files the last handler removed
    extraction_thread, \* the SafeFrameExtractionThread of the comparison dialog
    dialog            \* the comparison dialog and its safe_close

vars == <<files, video_files, threshold, alg, pc, video_metadata, video_phashes,
          similar_pairs, candidate_pairs, idx, returned, emitted, raised, prefiltered, compared,
          weights, throwing, cmp_result, meta1, meta2, meta_result, phash_calls,
          mode, video1_path, video2_path, max_frames, video_result,
          cap, frames_asked, seeks, extracted, file_contents, file_hash_cache,
          threshold_text, scan_ui_enabled, signals, handled, current_pairs,
          marked_for_deletion, pair_widgets, file_reference_count, deleted,
          extraction_thread, dialog>>

searchVars == <<files, video_files, threshold, alg, pc, video_metadata, video_phashes,
                similar_pairs, candidate_pairs, idx, returned, emitted, raised, prefiltered, compared,
                phash_calls>>
managerVars == <<weights, throwing, cmp_result>>
metaVars == <<meta1, meta2, meta_result>>
pairVars == <<mode, video1_path, video2_path, max_frames, video_result>>
samplerVars == <<cap, frames_asked, seeks, extracted>>
hashVars == <<file_contents, file_hash_cache>>
requestVars == <<threshold_text, scan_ui_enabled, signals, handled>>
markVars == <<current_pairs, marked_for_deletion, pair_widgets, file_reference_count, deleted>>
dialogVars == <<extraction_thread, dialog>>
guiVars == <<requestVars, markVars, dialogVars>>

(***************************************************************************)
(* Bounds                                                                  *)
(***************************************************************************)
MaxFiles == 3        \* longest list of paths handed to a search
MaxSize == 4         \* largest file size, in half megabytes

(***************************************************************************)
(* Exact rational arithmetic for the float scores                          *)
(***************************************************************************)
RECURSIVE GCD(_, _)
GCD(a, b) == IF b = 0 THEN a ELSE GCD(b, a % b)

Rat(n, d) == IF n = 0 THEN <<0, 1>> ELSE <<n \div GCD(n, d), d \div GCD(n, d)>>
RAdd(x, y) == Rat(x[1] * y[2] + y[1] * x[2], x[2] * y[2])
RMul(x, y) == Rat(x[1] * y[1], x[2] * y[2])
RDiv(x, y) == Rat(x[1] * y[2], x[2] * y[1])
RGe(x, y) == x[1] * y[2] >= y[1] * x[2]
RGt(x, y) == x[1] * y[2] > y[1] * x[2]
RLt(x, y) == x[1] * y[2] < y[1] * x[2]
RMax(x, y) == IF RGe(x, y) THEN x ELSE y
RMin(x, y) == IF RGe(x, y) THEN y ELSE x
Zero == <<0, 1>>
One == <<1, 1>>

Min(a, b) == IF a <= b THEN a ELSE b
Max(a, b) == IF a >= b THEN a ELSE b

RECURSIVE SeqSum(_)
SeqSum(s) == IF s = <<>> THEN Zero ELSE RAdd(s[1], SeqSum(Tail(s)))

(***************************************************************************)
(* MetadataPreFilter: OptimizedVideoComparator._are_metadata_similar       *)
(***************************************************************************)
NoHash == <<>>                 \* the "" returned when hashing failed
SizeRatioNum == 1              \* size_ratio < 0.5
SizeRatioDen == 2
DurationRatioNum == 7          \* duration_ratio < 0.7
DurationRatioDen == 10
WidthRatioNum == 7             \* width_ratio < 0.7
WidthRatioDen == 10

\* a ratio test that rejects the ratios above the limit
RatioAbove(a, b, num, den) == Min(a, b) * den > num * Max(a, b)

\* min(a, b) / max(a, b) < num / den, for max(a, b) > 0
RatioBelow(a, b, num, den) == Min(a, b) * den < num * Max(a, b)

\* _are_metadata_similar with the three limits 0.5, 0.7, 0.7 of lines 83, 89
\* and 95 as the rationals s, d, w
MetadataSimilarAt(m1, m2, s, d, w) ==
    IF m1.file_hash # NoHash /\ m2.file_hash # NoHash /\ m1.file_hash = m2.file_hash
    THEN "True"
    ELSE IF Max(m1.size, m2.size) = 0
    THEN "ZeroDivisionError"
    ELSE IF RatioBelow(m1.size, m2.size, s[1], s[2])
    THEN "False"
    ELSE IF m1.duration > 0 /\ m2.duration > 0
            /\ RatioBelow(m1.duration, m2.duration, d[1], d[2])
    THEN "False"
    ELSE IF m1.width > 0 /\ m2.width > 0
            /\ RatioBelow(m1.width, m2.width, w[1], w[2])
    THEN "False"
    ELSE "True"

\* the outcome is "True", "False" or the exception raised
_are_metadata_similar(m1, m2) ==
    IF m1.file_hash # NoHash /\ m2.file_hash # NoHash /\ m1.file_hash = m2.file_hash
    THEN "True"
    ELSE IF Max(m1.size, m2.size) = 0
    THEN "ZeroDivisionError"
    ELSE IF RatioBelow(m1.size, m2.size, SizeRatioNum, SizeRatioDen)
    THEN "False"
    ELSE IF m1.duration > 0 /\ m2.duration > 0
            /\ RatioBelow(m1.duration, m2.duration, DurationRatioNum, DurationRatioDen)
    THEN "False"
    ELSE IF m1.width > 0 /\ m2.width > 0
            /\ RatioBelow(m1.width, m2.width, WidthRatioNum, WidthRatioDen)
    THEN "False"
    ELSE "True"

(***************************************************************************)
(* The filesystem.  A file is what os.path.getsize, open() and OpenCV      *)
(* report for a path: head is the content of the first megabyte, tail the  *)
(* content after it, frames the decodable frames by index (0: the decode   *)
(* of that index fails).                                                   *)
(***************************************************************************)
Paths == {"p1", "p2", "p3"}
OneMB == 2           \* 1024 * 1024 bytes, in half megabytes

VidA == [exists |-> TRUE, readable |-> TRUE, opens |-> TRUE, size |-> 4, head |-> 1,
         tail |-> 1, duration |-> 10, width |-> 10, frames |-> <<1, 2, 1, 2>>]
VidB == [exists |-> TRUE, readable |-> TRUE, opens |-> TRUE, size |-> 3, head |-> 2,
         tail |-> 1, duration |-> 9, width |-> 10, frames |-> <<1, 2, 3>>]
VidC == [exists |-> TRUE, readable |-> TRUE, opens |-> TRUE, size |-> 1, head |-> 3,
         tail |-> 0, duration |-> 10, width |-> 10, frames |-> <<1, 2>>]
VidD == [exists |-> TRUE, readable |-> TRUE, opens |-> TRUE, size |-> 4, head |-> 4,
         tail |-> 1, duration |-> 10, width |-> 10, frames |-> <<2, 4>>]
Broken == [exists |-> TRUE, readable |-> TRUE, opens |-> FALSE, size |-> 4, head |-> 5,
           tail |-> 1, duration |-> 0, width |-> 0, frames |-> <<>>]
Locked == [exists |-> TRUE, readable |-> FALSE, opens |-> FALSE, size |-> 0, head |-> 0,
           tail |-> 0, duration |-> 0, width |-> 0, frames |-> <<>>]
Gone == [exists |-> FALSE, readable |-> FALSE, opens |-> FALSE, size |-> 0, head |-> 0,
         tail |-> 0, duration |-> 0, width |-> 0, frames |-> <<>>]

FileKinds == {VidA, VidB, VidC, VidD, Broken, Locked, Gone}

\* two files have the same bytes
ByteIdentical(f, g) ==
    /\ f.exists /\ g.exists
    /\ f.size = g.size /\ f.head = g.head /\ f.tail = g.tail

(***************************************************************************)
(* ContentFingerprint: OptimizedVideoComparator._get_file_hash.  md5 is    *)
(* taken to be injective, so the digest is the byte string it is fed: the  *)
(* whole content, or the first megabyte followed by str(file_size).        *)
(***************************************************************************)
_get_file_hash(f) ==
    IF ~f.exists \/ ~f.readable
    THEN NoHash
    ELSE IF f.size > OneMB
    THEN <<"md5", f.head, f.size>>
    ELSE <<"md5", f.head, f.tail>>

(***************************************************************************)
(* FrameSampler: FrameExtractor.extract_frames and get_video_info          *)
(***************************************************************************)
\* the sample position rounded to the nearest index instead of truncated
LinspacePosRounded(total, n, i) ==
    IF n = 1 THEN 0 ELSE (2 * i * (total - 1) + (n - 1)) \div (2 * (n - 1))

\* np.linspace(0, total - 1, n, dtype=int)[i] for i in 0..n-1: the cast truncates
LinspacePos(total, n, i) == IF n = 1 THEN 0 ELSE (i * (total - 1)) \div (n - 1)

frame_positions(total, n) ==
    IF total <= n
    THEN [i \in 1..total |-> i - 1]
    ELSE [i \in 1..n |-> LinspacePos(total, n, i - 1)]

\* a loop that gives up at the first failed read
RECURSIVE ReadFramesUntilFailure(_, _)
ReadFramesUntilFailure(all, positions) ==
    IF positions = <<>> THEN <<>>
    ELSE LET fr == all[positions[1] + 1]
         IN  IF fr <= 0 THEN <<>>
             ELSE <<fr>> \o ReadFramesUntilFailure(all, Tail(positions))

\* the frames read at the positions, the failed reads (ret false, frame 0) left
\* out; a read that raises (frame -1) ends the loop in the except clause, which
\* returns the frames appended so far
RECURSIVE ReadFrames(_, _)
ReadFrames(all, positions) ==
    IF positions = <<>> THEN <<>>
    ELSE LET fr == all[positions[1] + 1]
         IN  IF fr < 0 THEN <<>>
             ELSE IF fr = 0 THEN ReadFrames(all, Tail(positions))
             ELSE <<fr>> \o ReadFrames(all, Tail(positions))

\* the positions given to cap.set: all of them, up to a read that raises
RECURSIVE SeeksMade(_, _)
SeeksMade(all, positions) ==
    IF positions = <<>> THEN <<>>
    ELSE IF all[positions[1] + 1] < 0 THEN <<positions[1]>>
    ELSE <<positions[1]>> \o SeeksMade(all, Tail(positions))

extract_frames(f, num_frames) ==
    IF ~f.exists \/ ~f.opens
    THEN <<>>
    ELSE ReadFrames(f.frames, frame_positions(Len(f.frames), num_frames))

get_video_info(f) ==
    IF ~f.exists \/ ~f.opens
    THEN [width |-> 0, duration |-> 0]
    ELSE [width |-> f.width, duration |-> f.duration]

\* OptimizedVideoComparator._get_video_metadata; os.path.getsize raises for a
\* path that no longer exists, outside any try block
_get_video_metadata(f) ==
    IF ~f.exists
    THEN "OSError"
    ELSE [size |-> f.size,
          duration |-> get_video_info(f).duration,
          width |-> get_video_info(f).width,
          file_hash |-> _get_file_hash(f)]

(***************************************************************************)
(* FrameComparators.  A frame is identified by a small number; HistClass   *)
(* is its hue/saturation histogram, DctBits the 64 bit hash of             *)
(* PHashComparator._compute_phash and PHashBitsOf the imagehash.phash.     *)
(***************************************************************************)
Frames == {1, 2, 3, 4}
HashLen == 64        \* bits in a hash: dct[:8, :8], and imagehash.phash's 8 x 8
HistSteps == 4       \* correlation of two histograms, in quarters

HistClass(fr) == CASE fr = 1 -> 0 [] fr = 2 -> 1 [] fr = 3 -> 2 [] OTHER -> 4
DctBits(fr) == CASE fr = 1 -> {} [] fr = 2 -> 1..16 [] fr = 3 -> 1..32 [] OTHER -> 1..64
PHashBitsOf(fr) == CASE fr = 1 -> {} [] fr = 2 -> 1..12 [] fr = 3 -> 1..13 [] OTHER -> 1..64

\* number of differing bits of two hashes, each the set of its 1 bits
_hamming_distance(h1, h2) == Cardinality((h1 \ h2) \cup (h2 \ h1))

Abs(x) == IF x < 0 THEN -x ELSE x

\* HistogramComparator.compare: max(0.0, (correlation + 1) / 2)
HistogramCompare(f1, f2) ==
    RMax(Zero, Rat(HistSteps - Abs(HistClass(f1) - HistClass(f2)), HistSteps))

\* PHashComparator.compare: max(0.0, 1.0 - hamming_distance / len(hash1))
PHashCompare(f1, f2) ==
    RMax(Zero, Rat(HashLen - _hamming_distance(DctBits(f1), DctBits(f2)), HashLen))

(***************************************************************************)
(* ComparisonAggregator: ComparisonManager                                 *)
(***************************************************************************)
Comparators == <<"Histogram", "Perceptual Hash">>
ComparatorNames == {"Histogram", "Perceptual Hash"}

\* Config.ALGORITHM_WEIGHTS, in tenths
ALGORITHM_WEIGHTS == [c \in ComparatorNames |-> IF c = "Histogram" THEN 4 ELSE 6]

\* ComparisonManager.setup_comparators
setup_comparators == ALGORITHM_WEIGHTS

\* comparator.compare(image1, image2)
Compare(c, f1, f2) == IF c = "Histogram" THEN HistogramCompare(f1, f2) ELSE PHashCompare(f1, f2)

\* a loop that counts the weight of a comparator that raised
RECURSIVE TotalsCountingFailed(_, _, _, _, _)
TotalsCountingFailed(k, w, thr, f1, f2) ==
    IF k > Len(Comparators) THEN <<Zero, 0>>
    ELSE LET c == Comparators[k]
             rest == TotalsCountingFailed(k + 1, w, thr, f1, f2)
         IN  IF c \in thr THEN <<rest[1], w[c] + rest[2]>>
             ELSE <<RAdd(RMul(Compare(c, f1, f2), <<w[c], 1>>), rest[1]), w[c] + rest[2]>>

\* the loop of compare_images over self.comparators[k..]: the running
\* <<total_score, total_weight>>; a comparator that raises adds to neither
RECURSIVE Totals(_, _, _, _, _)
Totals(k, w, thr, f1, f2) ==
    IF k > Len(Comparators) THEN <<Zero, 0>>
    ELSE LET c == Comparators[k]
             rest == Totals(k + 1, w, thr, f1, f2)
         IN  IF c \in thr THEN rest
             ELSE <<RAdd(RMul(Compare(c, f1, f2), <<w[c], 1>>), rest[1]), w[c] + rest[2]>>

\* ComparisonManager.compare_images: comparator name -> score, and "overall"
compare_images(w, thr, f1, f2) ==
    LET tot == Totals(1, w, thr, f1, f2)
    IN  [k \in ComparatorNames \cup {"overall"} |->
            IF k = "overall"
            THEN IF tot[2] > 0 THEN RDiv(tot[1], <<tot[2], 1>>) ELSE Zero
            ELSE IF k \in thr THEN Zero ELSE Compare(k, f1, f2)]

\* ComparisonManager.set_weights: only the comparators named in the dict change
set_weights(w, new) == [c \in ComparatorNames |-> IF c \in DOMAIN new THEN new[c] ELSE w[c]]

(***************************************************************************)
(* PairwiseVideoComparator                                                 *)
(***************************************************************************)
OPTIMIZED_COMPARISON_FRAMES == 3     \* Config.OPTIMIZED_COMPARISON_FRAMES
DEFAULT_FRAMES_TO_COMPARE == 10      \* Config.DEFAULT_FRAMES_TO_COMPARE
MaxComparisons == 3                  \* min(len(frames1), len(frames2), 3)

NoFrames == [similarity |-> Zero, error |-> TRUE, frame_comparisons |-> <<>>]

\* OptimizedVideoComparator.compare_videos: the first frames, index by index
OptimizedCompareVideos(w, thr, f, g) ==
    LET frames1 == extract_frames(f, OPTIMIZED_COMPARISON_FRAMES)
        frames2 == extract_frames(g, OPTIMIZED_COMPARISON_FRAMES)
        max_comparisons == Min(Min(Len(frames1), Len(frames2)), MaxComparisons)
        sims == [i \in 1..max_comparisons |->
                    compare_images(w, thr, frames1[i], frames2[i])["overall"]]
    IN  IF frames1 = <<>> \/ frames2 = <<>>
        THEN NoFrames
        ELSE [similarity |-> IF max_comparisons > 0
                             THEN RDiv(SeqSum(sims), <<max_comparisons, 1>>) ELSE Zero,
              error |-> FALSE,
              frame_comparisons |-> sims]

\* an inner loop that keeps the score of the last frame of frames2
RECURSIVE BestSimilarityLast(_, _, _, _, _, _)
BestSimilarityLast(w, thr, frame1, frames2, j, best) ==
    IF j > Len(frames2) THEN best
    ELSE BestSimilarityLast(w, thr, frame1, frames2, j + 1,
                            compare_images(w, thr, frame1, frames2[j])["overall"])

\* VideoComparator.compare_videos, inner loop: the best score of frame1 over
\* frames2[j..], starting from best_similarity = 0.0 and replaced only by a
\* strictly greater score
RECURSIVE BestSimilarity(_, _, _, _, _, _)
BestSimilarity(w, thr, frame1, frames2, j, best) ==
    IF j > Len(frames2) THEN best
    ELSE LET similarity == compare_images(w, thr, frame1, frames2[j])["overall"]
         IN  BestSimilarity(w, thr, frame1, frames2, j + 1,
                            IF RGt(similarity, best) THEN similarity ELSE best)

\* VideoComparator.compare_videos: a frame of the first video is recorded
\* only when best_comparison_details was filled, that is its best score > 0
FullCompareVideos(w, thr, f, g) ==
    LET frames1 == extract_frames(f, DEFAULT_FRAMES_TO_COMPARE)
        frames2 == extract_frames(g, DEFAULT_FRAMES_TO_COMPARE)
        best == [i \in 1..Len(frames1) |-> BestSimilarity(w, thr, frames1[i], frames2, 1, Zero)]
        kept == SelectSeq(best, LAMBDA b : RGt(b, Zero))
    IN  IF frames1 = <<>> \/ frames2 = <<>>
        THEN NoFrames
        ELSE [similarity |-> IF Len(kept) > 0
                             THEN RDiv(SeqSum(kept), <<Len(kept), 1>>) ELSE Zero,
              error |-> FALSE,
              frame_comparisons |-> kept]

\* CompareThread.__init__: int(max_frames or 10)
CompareThreadFrames(n) == IF n = 0 THEN 10 ELSE n

\* CompareThread.run with every slot, missing or not, counted in the mean
CompareThreadRunOverSlots(thr, f, g, n) ==
    LET frames1 == extract_frames(f, CompareThreadFrames(n))
        frames2 == extract_frames(g, CompareThreadFrames(n))
        both(i) == i <= Len(frames1) /\ i <= Len(frames2)
        sims == [i \in 1..CompareThreadFrames(n) |->
                    IF both(i)
                    THEN compare_images(setup_comparators, thr, frames1[i], frames2[i])["overall"]
                    ELSE Zero]
    IN  [similarity |-> RDiv(SeqSum(sims), <<CompareThreadFrames(n), 1>>),
         error |-> FALSE,
         frame_comparisons |-> sims]

\* CompareThread.run with the mean taken over the frames of the first video
CompareThreadRunByFirst(thr, f, g, n) ==
    LET frames1 == extract_frames(f, CompareThreadFrames(n))
        frames2 == extract_frames(g, CompareThreadFrames(n))
        both(i) == i <= Len(frames1) /\ i <= Len(frames2)
        sims == [i \in 1..CompareThreadFrames(n) |->
                    IF both(i)
                    THEN compare_images(setup_comparators, thr, frames1[i], frames2[i])["overall"]
                    ELSE Zero]
    IN  [similarity |-> IF Len(frames1) > 0
                        THEN RDiv(SeqSum(sims), <<Len(frames1), 1>>) ELSE Zero,
         error |-> FALSE,
         frame_comparisons |-> sims]

\* CompareThread.run, the frame based path: a fresh ComparisonManager, one
\* entry per slot of range(max_frames), 0.0 for a slot that misses a frame;
\* total and valid count only the slots that have both frames; the result
\* dict has no 'error' key
CompareThreadRun(thr, f, g, n) ==
    LET frames1 == extract_frames(f, CompareThreadFrames(n))
        frames2 == extract_frames(g, CompareThreadFrames(n))
        both(i) == i <= Len(frames1) /\ i <= Len(frames2)
        sims == [i \in 1..CompareThreadFrames(n) |->
                    IF both(i)
                    THEN compare_images(setup_comparators, thr, frames1[i], frames2[i])["overall"]
                    ELSE Zero]
        valid == Cardinality({i \in 1..CompareThreadFrames(n) : both(i)})
    IN  [similarity |-> IF valid > 0 THEN RDiv(SeqSum(sims), <<valid, 1>>) ELSE Zero,
         error |-> FALSE,
         frame_comparisons |-> sims]

(***************************************************************************)
(* PerceptualHashEngine: PHashAlgorithm                                    *)
(***************************************************************************)
PHASH_FRAMES == 30               \* frames_to_sample
PHASH_HAMMING_THRESHOLD == 12    \* ham_thresh

\* PHashAlgorithm._video_to_phashes: one hash per extracted frame
_video_to_phashes(f, frames_count) ==
    LET frames == extract_frames(f, frames_count)
    IN  [i \in 1..Len(frames) |-> PHashBitsOf(frames[i])]

\* the pair loop scoring the mean of 1 - (smallest distance) / 64 over the
\* shorter list, as compare_videos does
MatchRatioAveraged(ph_a, ph_b, ham_thresh) ==
    LET short == IF Len(ph_a) <= Len(ph_b) THEN ph_a ELSE ph_b
        long == IF Len(ph_a) <= Len(ph_b) THEN ph_b ELSE ph_a
        best(ha) == CHOOSE d \in {_hamming_distance(ha, long[k]) : k \in 1..Len(long)} :
                        \A k \in 1..Len(long) : d <= _hamming_distance(ha, long[k])
    IN  IF short = <<>> THEN Zero
        ELSE RDiv(SeqSum([k \in 1..Len(short) |-> Rat(HashLen - best(short[k]), HashLen)]),
                  <<Len(short), 1>>)

\* find_similar_videos_optimized, the body of the pair loop: the share of the
\* hashes of the shorter list that have a hash of the longer one within ham_thresh
MatchRatio(ph_a, ph_b, ham_thresh) ==
    LET short == IF Len(ph_a) <= Len(ph_b) THEN ph_a ELSE ph_b
        long == IF Len(ph_a) <= Len(ph_b) THEN ph_b ELSE ph_a
        found(ha) == \E k \in 1..Len(long) : _hamming_distance(ha, long[k]) <= ham_thresh
        matches == Cardinality({k \in 1..Len(short) : found(short[k])})
    IN  Rat(matches, Max(1, Len(short)))

\* the smallest Hamming distance from h to a hash of the list (best_dist)
RECURSIVE BestDist(_, _)
BestDist(h, list) ==
    IF Len(list) = 1 THEN _hamming_distance(h, list[1])
    ELSE Min(_hamming_distance(h, list[1]), BestDist(h, Tail(list)))

\* PHashAlgorithm.compare_videos: int(max_frames or self.frames_to_sample)
PHashFrames(n) == IF n = 0 THEN PHASH_FRAMES ELSE n

\* sim = max(0.0, min(1.0, 1.0 - best_dist / max_bits))
PHashSim(best_dist) == RMax(Zero, RMin(One, Rat(HashLen - best_dist, HashLen)))

\* compare_videos driven by the hashes of the first video, whatever the lengths
PHashCompareVideosByFirst(f, g, n) ==
    LET ph1 == _video_to_phashes(f, PHashFrames(n))
        ph2 == _video_to_phashes(g, PHashFrames(n))
        comps == [i \in 1..Len(ph1) |->
                    [similarity |-> PHashSim(BestDist(ph1[i], ph2)),
                     hamming_distance |-> BestDist(ph1[i], ph2)]]
    IN  IF ph1 = <<>> \/ ph2 = <<>>
        THEN [similarity |-> Zero, error |-> FALSE, frame_comparisons |-> <<>>]
        ELSE [similarity |-> RDiv(SeqSum([i \in 1..Len(comps) |-> comps[i].similarity]),
                                  <<Len(comps), 1>>),
              error |-> FALSE,
              frame_comparisons |-> comps]

\* PHashAlgorithm.compare_videos: no 'error' key in either returned dict
PHashCompareVideos(f, g, n) ==
    LET ph1 == _video_to_phashes(f, PHashFrames(n))
        ph2 == _video_to_phashes(g, PHashFrames(n))
        short == IF Len(ph1) <= Len(ph2) THEN ph1 ELSE ph2
        long == IF Len(ph1) <= Len(ph2) THEN ph2 ELSE ph1
        comps == [i \in 1..Len(short) |->
                    [similarity |-> PHashSim(BestDist(short[i], long)),
                     hamming_distance |-> BestDist(short[i], long)]]
    IN  IF ph1 = <<>> \/ ph2 = <<>>
        THEN [similarity |-> Zero, error |-> FALSE, frame_comparisons |-> <<>>]
        ELSE [similarity |-> RDiv(SeqSum([i \in 1..Len(comps) |-> comps[i].similarity]),
                                  <<Len(comps), 1>>),
              error |-> FALSE,
              frame_comparisons |-> comps]

(***************************************************************************)
(* SimilaritySearchEngine: helpers                                         *)
(***************************************************************************)
Range(s) == {s[i] : i \in DOMAIN s}

\* the keys of a dict filled from the list, in insertion order
RECURSIVE Keys(_)
Keys(s) ==
    IF s = <<>> THEN <<>>
    ELSE LET front == Keys(SubSeq(s, 1, Len(s) - 1))
         IN  IF s[Len(s)] \in Range(front) THEN front ELSE Append(front, s[Len(s)])

\* for i in range(n): for j in range(i + 1, n): the pairs <<i, j>>, 1-based
RECURSIVE IndexPairsFrom(_, _, _)
IndexPairsFrom(i, j, n) ==
    IF i >= n THEN <<>>
    ELSE IF j > n THEN IndexPairsFrom(i + 1, i + 2, n)
    ELSE <<(<<i, j>>)>> \o IndexPairsFrom(i, j + 1, n)

IndexPairs(n) == IndexPairsFrom(1, 2, n)

\* a result tuple (video1, video2, similarity, details); n is the position at
\* which the tuple was appended to the list
Entry(a, b, score, type, n) == [a |-> a, b |-> b, score |-> score, type |-> type, n |-> n]

\* append the tuples of the list of path pairs, each with the score and type
RECURSIVE AppendAll(_, _, _, _)
AppendAll(list, pairs, score, type) ==
    IF pairs = <<>> THEN list
    ELSE AppendAll(Append(list, Entry(pairs[1][1], pairs[1][2], score, type, Len(list) + 1)),
                   Tail(pairs), score, type)

\* list.sort(key=lambda x: x[2], reverse=True): stable, so a tuple goes
\* behind every tuple already placed whose score is not smaller
RECURSIVE InsertDesc(_, _)
InsertDesc(sorted, e) ==
    IF sorted = <<>> THEN <<e>>
    ELSE IF RLt(sorted[1].score, e.score) THEN <<e>> \o sorted
    ELSE <<sorted[1]>> \o InsertDesc(Tail(sorted), e)

RECURSIVE SortFrom(_, _)
SortFrom(sorted, rest) ==
    IF rest = <<>> THEN sorted ELSE SortFrom(InsertDesc(sorted, rest[1]), Tail(rest))

\* a sort that puts a tuple in front of the tuples of equal score
RECURSIVE InsertBeforeEqual(_, _)
InsertBeforeEqual(sorted, e) ==
    IF sorted = <<>> THEN <<e>>
    ELSE IF ~RGt(sorted[1].score, e.score) THEN <<e>> \o sorted
    ELSE <<sorted[1]>> \o InsertBeforeEqual(Tail(sorted), e)

RECURSIVE SortFromUnstable(_, _)
SortFromUnstable(sorted, rest) ==
    IF rest = <<>> THEN sorted
    ELSE SortFromUnstable(InsertBeforeEqual(sorted, rest[1]), Tail(rest))

SortTiesReversed(list) == SortFromUnstable(<<>>, list)

SortDescending(list) == SortFrom(<<>>, list)

(***************************************************************************)
(* OptimizedVideoComparator.find_similar_videos_optimized                  *)
(***************************************************************************)
\* step 2: hash_groups, in the order the hashes are first met
HashGroups(paths, meta) ==
    LET hashed == SelectSeq(paths, LAMBDA p : meta[p].file_hash # NoHash)
        hashes == Keys([i \in 1..Len(hashed) |-> meta[hashed[i]].file_hash])
    IN  [k \in 1..Len(hashes) |-> SelectSeq(hashed, LAMBDA p : meta[p].file_hash = hashes[k])]

\* the pairs (group[i], group[j]), i < j, of one group
GroupPairs(group) ==
    LET ip == IndexPairs(Len(group))
    IN  [k \in 1..Len(ip) |-> <<group[ip[k][1]], group[ip[k][2]]>>]

RECURSIVE ExactDuplicatePairs(_, _)
ExactDuplicatePairs(groups, k) ==
    IF k > Len(groups) THEN <<>>
    ELSE (IF Len(groups[k]) > 1 THEN GroupPairs(groups[k]) ELSE <<>>)
         \o ExactDuplicatePairs(groups, k + 1)

\* step 3: the loop over the index pairs ip[k..] of video_files; st is
\* [candidate_pairs, processed_pairs, asked, raised]
RECURSIVE Enumerate(_, _, _, _, _)
Enumerate(vf, meta, ip, k, st) ==
    IF k > Len(ip) \/ st.raised # "none" THEN st
    ELSE LET video1 == vf[ip[k][1]]
             video2 == vf[ip[k][2]]
             answer == _are_metadata_similar(meta[video1], meta[video2])
         IN  IF <<video1, video2>> \in st.processed_pairs
                \/ <<video2, video1>> \in st.processed_pairs
             THEN Enumerate(vf, meta, ip, k + 1, st)
             ELSE Enumerate(vf, meta, ip, k + 1,
                    [candidate_pairs |-> IF answer = "True"
                                         THEN Append(st.candidate_pairs, <<video1, video2>>)
                                         ELSE st.candidate_pairs,
                     processed_pairs |-> IF answer \in {"True", "False"}
                                         THEN st.processed_pairs \cup {<<video1, video2>>}
                                         ELSE st.processed_pairs,
                     asked |-> st.asked \cup {<<video1, video2, answer>>},
                     raised |-> IF answer \in {"True", "False"} THEN "none" ELSE answer])

\* an enumeration that keeps every pair it asked about, whatever the answer
CandidateEnumerationUnfiltered(vf, meta) ==
    LET st == Enumerate(vf, meta, IndexPairs(Len(vf)), 1,
                        [candidate_pairs |-> <<>>, processed_pairs |-> {}, asked |-> {},
                         raised |-> "none"])
        all == GroupPairs(vf)
    IN  [st EXCEPT !.candidate_pairs =
            SelectSeq(all, LAMBDA pr : \E ans \in {"True", "False"} :
                                          <<pr[1], pr[2], ans>> \in st.asked)]

CandidateEnumeration(vf, meta) ==
    Enumerate(vf, meta, IndexPairs(Len(vf)), 1,
              [candidate_pairs |-> <<>>, processed_pairs |-> {}, asked |-> {},
               raised |-> "none"])

(***************************************************************************)
(* OptimizedScanThread.run: the deduplication of the returned list         *)
(***************************************************************************)
PathRank(p) == CASE p = "p1" -> 1 [] p = "p2" -> 2 [] OTHER -> 3

\* tuple(sorted([video1, video2]))
PairKey(video1, video2) ==
    IF PathRank(video1) <= PathRank(video2) THEN <<video1, video2>> ELSE <<video2, video1>>

\* a deduplication that keeps the last tuple of a pair instead of the first
RECURSIVE LastOfPairs(_)
LastOfPairs(list) ==
    IF list = <<>> THEN <<>>
    ELSE IF \E k \in 2..Len(list) : PairKey(list[k].a, list[k].b) = PairKey(list[1].a, list[1].b)
    THEN LastOfPairs(Tail(list))
    ELSE <<list[1]>> \o LastOfPairs(Tail(list))

DeduplicateKeepLast(list) == LastOfPairs(list)

\* a deduplication whose seen set is never filled
DeduplicateNoSeen(list) == SelectSeq(list, LAMBDA e : PairKey(e.a, e.b) \notin {})

RECURSIVE UniquePairs(_, _)
UniquePairs(list, seen) ==
    IF list = <<>> THEN <<>>
    ELSE LET key == PairKey(list[1].a, list[1].b)
         IN  IF key \in seen THEN UniquePairs(Tail(list), seen)
             ELSE <<list[1]>> \o UniquePairs(Tail(list), seen \cup {key})

Deduplicate(list) == UniquePairs(list, {})

(***************************************************************************)
(* The search as a state machine                                           *)
(***************************************************************************)
Algorithms == {"simple", "phash", "full"}
Thresholds == {<<1, 2>>, <<7, 10>>, <<1, 1>>}
SIMILARITY_THRESHOLD == <<7, 10>>    \* Config.SIMILARITY_THRESHOLD

PathLists == UNION {[1..n -> Paths] : n \in 0..MaxFiles}

None == "None"

ManagerInit ==
    /\ weights = setup_comparators
    /\ throwing = {}
    /\ cmp_result = <<>>

MetaIdle ==
    /\ meta1 = None
    /\ meta2 = None
    /\ meta_result = None

SearchIdle ==
    /\ pc = "idle"
    /\ video_metadata = <<>>
    /\ video_phashes = <<>>
    /\ similar_pairs = <<>>
    /\ candidate_pairs = <<>>
    /\ idx = 0
    /\ returned = <<>>
    /\ emitted = <<>>
    /\ raised = "none"
    /\ prefiltered = {}
    /\ compared = {}
    /\ phash_calls = <<>>

\* no pairwise comparison was asked for
PairIdle ==
    /\ mode = None
    /\ video1_path = None
    /\ video2_path = None
    /\ max_frames = 0
    /\ video_result = <<>>

\* no capture is open
SamplerIdle ==
    /\ cap = <<>>
    /\ frames_asked = 0
    /\ seeks = <<>>
    /\ extracted = <<>>

\* _file_hash_cache = {}
HashIdle ==
    /\ file_contents = <<>>
    /\ file_hash_cache = <<>>

\* the text of similarity_threshold_input: empty, a number, or no number
EmptyText == [kind |-> "empty", value |-> Zero]
BadText == [kind |-> "text", value |-> Zero]
TextNumber(r) == [kind |-> "number", value |-> r]

\* QLineEdit(str(Config.SIMILARITY_THRESHOLD))
DefaultText == TextNumber(SIMILARITY_THRESHOLD)

\* no extraction thread was created
NoThread ==
    [video_paths |-> <<>>, num_frames |-> 0, _is_running |-> TRUE,
     interruption_requested |-> FALSE, pc |-> "none", i |-> 0, results |-> <<>>,
     emitted |-> <<>>]

\* no comparison dialog is open
NoDialog ==
    [state |-> "none", closed_running |-> FALSE, results_at_close |-> 0, emitted_at_close |-> 0]

\* MainWindow.__init__: nothing scanned, nothing displayed, nothing marked
GuiIdle ==
    /\ threshold_text = DefaultText
    /\ scan_ui_enabled = TRUE
    /\ signals = <<>>
    /\ handled = 0
    /\ current_pairs = <<>>
    /\ marked_for_deletion = {}
    /\ pair_widgets = [p \in Paths |-> <<>>]
    /\ file_reference_count = {}
    /\ deleted = {}
    /\ extraction_thread = NoThread
    /\ dialog = NoDialog

\* FileScanner.find_video_files walks one folder, so the console search gets
\* every path once; the scan thread concatenates the lists of all the selected
\* folders, which may overlap
NoRepeats(s) == \A i, j \in DOMAIN s : s[i] = s[j] => i = j

Init ==
    /\ files \in [Paths -> FileKinds]
    /\ video_files \in PathLists
    /\ threshold \in Thresholds
    /\ alg \in Algorithms
    /\ alg = "full" => NoRepeats(video_files)
    /\ SearchIdle
    /\ ManagerInit
    /\ MetaIdle
    /\ PairIdle
    /\ SamplerIdle
    /\ HashIdle
    /\ GuiIdle

\* a run that ends without the finally block
EmitResultOnly(payload) ==
    signals' = Append(signals, [name |-> "result_signal", payload |-> payload])

\* result_signal.emit(payload) followed by the finished_signal.emit() of the
\* finally block
EmitBoth(payload) ==
    signals' = signals \o <<[name |-> "result_signal", payload |-> payload],
                            [name |-> "finished_signal", payload |-> <<>>]>>

\* OptimizedScanThread.run up to the call of the search (alg simple, phash);
\* __main__.main, choice 3 (alg full)
StartScan ==
    /\ pc = "idle"
    /\ IF alg = "full"
       THEN pc' = "full_pairs" /\ idx' = 1 /\ UNCHANGED <<emitted, signals>>
       ELSE IF video_files = <<>>
       THEN pc' = "finished" /\ emitted' = Append(emitted, <<>>) /\ EmitBoth(<<>>)
            /\ UNCHANGED idx
       ELSE pc' = (IF alg = "simple" THEN "metadata" ELSE "hashes")
            /\ UNCHANGED <<emitted, idx, signals>>
    /\ UNCHANGED <<files, video_files, threshold, alg, phash_calls, video_metadata, video_phashes, similar_pairs,
                   candidate_pairs, returned, raised, prefiltered, compared>>
    /\ UNCHANGED <<managerVars, metaVars, pairVars, samplerVars, hashVars>>
    /\ UNCHANGED <<threshold_text, scan_ui_enabled, handled, markVars, dialogVars>>

\* find_similar_videos_optimized, step 1: the metadata of every file
CollectMetadata ==
    /\ pc = "metadata"
    /\ IF \E p \in Range(video_files) : ~files[p].exists
       THEN /\ raised' = "OSError"
            /\ pc' = "failed"
            /\ UNCHANGED video_metadata
       ELSE /\ video_metadata' = [p \in Range(video_files) |-> _get_video_metadata(files[p])]
            /\ pc' = "group"
            /\ UNCHANGED raised
    /\ UNCHANGED <<files, video_files, threshold, alg, phash_calls, video_phashes, similar_pairs, candidate_pairs, idx,
                   returned, emitted, prefiltered, compared>>
    /\ UNCHANGED <<managerVars, metaVars, pairVars, samplerVars, hashVars, guiVars>>

\* step 2: the exact duplicates
GroupExactDuplicates ==
    /\ pc = "group"
    /\ similar_pairs' = AppendAll(<<>>,
            ExactDuplicatePairs(HashGroups(Keys(video_files), video_metadata), 1),
            One, "exact_duplicate")
    /\ pc' = "prefilter"
    /\ UNCHANGED <<files, video_files, threshold, alg, phash_calls, video_metadata, video_phashes, candidate_pairs, idx,
                   returned, emitted, raised, prefiltered, compared>>
    /\ UNCHANGED <<managerVars, metaVars, pairVars, samplerVars, hashVars, guiVars>>

\* step 3: the metadata prefilter over every pair of the list
PrefilterCandidates ==
    /\ pc = "prefilter"
    /\ LET st == CandidateEnumeration(video_files, video_metadata)
       IN  /\ prefiltered' = st.asked
           /\ IF st.raised # "none"
              THEN /\ raised' = st.raised
                   /\ pc' = "failed"
                   /\ UNCHANGED <<candidate_pairs, idx>>
              ELSE /\ candidate_pairs' = st.candidate_pairs
                   /\ idx' = 1
                   /\ pc' = "deep"
                   /\ UNCHANGED raised
    /\ UNCHANGED <<files, video_files, threshold, alg, phash_calls, video_metadata, video_phashes, similar_pairs,
                   returned, emitted, compared>>
    /\ UNCHANGED <<managerVars, metaVars, pairVars, samplerVars, hashVars, guiVars>>

\* a threshold test that drops the pairs scoring exactly the threshold
KeepAbove(list, a, b, similarity, type) ==
    IF RGt(similarity, threshold)
    THEN Append(list, Entry(a, b, similarity, type, Len(list) + 1))
    ELSE list

\* similar_pairs.append(...) if similarity >= similarity_threshold
Keep(list, a, b, similarity, type) ==
    IF RGe(similarity, threshold)
    THEN Append(list, Entry(a, b, similarity, type, Len(list) + 1))
    ELSE list

\* step 4: one iteration of the loop over candidate_pairs
DeepCompare ==
    /\ pc = "deep"
    /\ idx <= Len(candidate_pairs)
    /\ LET video1 == candidate_pairs[idx][1]
           video2 == candidate_pairs[idx][2]
           result == OptimizedCompareVideos(weights, throwing, files[video1], files[video2])
       IN  /\ compared' = compared \cup {<<video1, video2, result.similarity>>}
           /\ similar_pairs' = Keep(similar_pairs, video1, video2, result.similarity, "comparison")
    /\ idx' = idx + 1
    /\ UNCHANGED <<files, video_files, threshold, alg, phash_calls, pc, video_metadata, video_phashes, candidate_pairs,
                   returned, emitted, raised, prefiltered>>
    /\ UNCHANGED <<managerVars, metaVars, pairVars, samplerVars, hashVars, guiVars>>

\* the sort and the return
SortAndReturn ==
    /\ pc = "deep"
    /\ idx > Len(candidate_pairs)
    /\ returned' = SortDescending(similar_pairs)
    /\ pc' = "returned"
    /\ UNCHANGED <<files, video_files, threshold, alg, phash_calls, video_metadata, video_phashes, similar_pairs,
                   candidate_pairs, idx, emitted, raised, prefiltered, compared>>
    /\ UNCHANGED <<managerVars, metaVars, pairVars, samplerVars, hashVars, guiVars>>

\* PHashAlgorithm.find_similar_videos_optimized: the loop over video_files calls
\* _video_to_phashes for every entry of the list and stores the list under the path
ComputePHashes ==
    /\ pc = "hashes"
    /\ video_phashes' = [p \in Range(video_files) |-> _video_to_phashes(files[p], PHASH_FRAMES)]
    /\ phash_calls' = video_files
    /\ idx' = 1
    /\ pc' = "phash_pairs"
    /\ UNCHANGED <<files, video_files, threshold, alg, video_metadata, similar_pairs,
                   candidate_pairs, returned, emitted, raised, prefiltered, compared>>
    /\ UNCHANGED <<managerVars, metaVars, pairVars, samplerVars, hashVars, guiVars>>

\* vids = list(video_phashes.keys()) and the pairs (vids[i], vids[j]), i < j
PHashPairs == GroupPairs(Keys(video_files))

\* one iteration of the pair loop
PHashComparePair ==
    /\ pc = "phash_pairs"
    /\ idx <= Len(PHashPairs)
    /\ LET a == PHashPairs[idx][1]
           b == PHashPairs[idx][2]
           match_ratio == MatchRatio(video_phashes[a], video_phashes[b], PHASH_HAMMING_THRESHOLD)
       IN  IF video_phashes[a] = <<>> \/ video_phashes[b] = <<>>
           THEN UNCHANGED <<compared, similar_pairs>>
           ELSE /\ compared' = compared \cup {<<a, b, match_ratio>>}
                /\ similar_pairs' = Keep(similar_pairs, a, b, match_ratio, "phash")
    /\ idx' = idx + 1
    /\ UNCHANGED <<files, video_files, threshold, alg, phash_calls, pc, video_metadata, video_phashes,
                   candidate_pairs, returned, emitted, raised, prefiltered>>
    /\ UNCHANGED <<managerVars, metaVars, pairVars, samplerVars, hashVars, guiVars>>

\* results.sort(key=lambda x: -x[2]) and the return
PHashSortAndReturn ==
    /\ pc = "phash_pairs"
    /\ idx > Len(PHashPairs)
    /\ returned' = SortDescending(similar_pairs)
    /\ pc' = "returned"
    /\ UNCHANGED <<files, video_files, threshold, alg, phash_calls, video_metadata, video_phashes,
                   similar_pairs, candidate_pairs, idx, emitted, raised, prefiltered, compared>>
    /\ UNCHANGED <<managerVars, metaVars, pairVars, samplerVars, hashVars, guiVars>>

\* VideoComparator.find_similar_videos: the pairs (video_files[i], video_files[j]), i < j
FullPairs == GroupPairs(video_files)

\* one iteration of the pair loop
FullComparePair ==
    /\ pc = "full_pairs"
    /\ idx <= Len(FullPairs)
    /\ LET video1 == FullPairs[idx][1]
           video2 == FullPairs[idx][2]
           result == FullCompareVideos(weights, throwing, files[video1], files[video2])
       IN  /\ compared' = compared \cup {<<video1, video2, result.similarity>>}
           /\ similar_pairs' = Keep(similar_pairs, video1, video2, result.similarity, "comparison")
    /\ idx' = idx + 1
    /\ UNCHANGED <<files, video_files, threshold, alg, phash_calls, pc, video_metadata, video_phashes,
                   candidate_pairs, returned, emitted, raised, prefiltered>>
    /\ UNCHANGED <<managerVars, metaVars, pairVars, samplerVars, hashVars, guiVars>>

\* the sort and the return
FullSortAndReturn ==
    /\ pc = "full_pairs"
    /\ idx > Len(FullPairs)
    /\ returned' = SortDescending(similar_pairs)
    /\ pc' = "returned"
    /\ UNCHANGED <<files, video_files, threshold, alg, phash_calls, video_metadata, video_phashes,
                   similar_pairs, candidate_pairs, idx, emitted, raised, prefiltered, compared>>
    /\ UNCHANGED <<managerVars, metaVars, pairVars, samplerVars, hashVars, guiVars>>

\* OptimizedScanThread.run after the search returned: deduplicate and emit
EmitResults ==
    /\ pc = "returned"
    /\ alg # "full"
    /\ emitted' = Append(emitted, Deduplicate(returned))
    /\ EmitBoth(Deduplicate(returned))
    /\ pc' = "finished"
    /\ UNCHANGED <<files, video_files, threshold, alg, phash_calls, video_metadata, video_phashes,
                   similar_pairs, candidate_pairs, idx, returned, raised, prefiltered, compared>>
    /\ UNCHANGED <<managerVars, metaVars, pairVars, samplerVars, hashVars>>
    /\ UNCHANGED <<threshold_text, scan_ui_enabled, handled, markVars, dialogVars>>

\* OptimizedScanThread.run, except Exception: an empty list is emitted
EmitOnException ==
    /\ pc = "failed"
    /\ emitted' = Append(emitted, <<>>)
    /\ EmitBoth(<<>>)
    /\ pc' = "finished"
    /\ UNCHANGED <<files, video_files, threshold, alg, phash_calls, video_metadata, video_phashes,
                   similar_pairs, candidate_pairs, idx, returned, raised, prefiltered, compared>>
    /\ UNCHANGED <<managerVars, metaVars, pairVars, samplerVars, hashVars>>
    /\ UNCHANGED <<threshold_text, scan_ui_enabled, handled, markVars, dialogVars>>

Next ==
    \/ StartScan
    \/ CollectMetadata
    \/ GroupExactDuplicates
    \/ PrefilterCandidates
    \/ DeepCompare
    \/ SortAndReturn
    \/ ComputePHashes
    \/ PHashComparePair
    \/ PHashSortAndReturn
    \/ FullComparePair
    \/ FullSortAndReturn
    \/ EmitResults
    \/ EmitOnException

Spec == Init /\ [][Next]_vars

(***************************************************************************)
(* The metadata prefilter on its own: every pair of metadata records       *)
(***************************************************************************)
Durations == {0, 6, 7, 10}
Widths == {0, 7, 10}
ContentIds == {1, 2}

\* what _get_video_metadata can build: an empty file has one possible content
\* and no video stream
MetaRecords ==
    {m \in [size : 0..MaxSize, duration : Durations, width : Widths,
            file_hash : {NoHash} \cup {<<"md5", c, sz>> : c \in ContentIds, sz \in 0..MaxSize}] :
        /\ m.file_hash # NoHash => (m.file_hash[3] = m.size /\ (m.size = 0 => m.file_hash[2] = 1))
        /\ m.size = 0 => (m.duration = 0 /\ m.width = 0)}

SearchUnused ==
    /\ files = [p \in Paths |-> VidA]
    /\ video_files = <<>>
    /\ threshold = SIMILARITY_THRESHOLD
    /\ alg = "simple"
    /\ SearchIdle

InitMeta ==
    /\ meta1 \in MetaRecords
    /\ meta2 \in MetaRecords
    /\ meta_result = None
    /\ SearchUnused
    /\ ManagerInit
    /\ PairIdle
    /\ SamplerIdle
    /\ HashIdle
    /\ GuiIdle

AreMetadataSimilar ==
    /\ meta_result = None
    /\ meta_result' = _are_metadata_similar(meta1, meta2)
    /\ UNCHANGED <<meta1, meta2, searchVars, managerVars, pairVars, samplerVars, hashVars, guiVars>>

NextMeta == AreMetadataSimilar

SpecMeta == InitMeta /\ [][NextMeta]_vars

(***************************************************************************)
(* The aggregator on its own: ComparisonManager under set_weights and      *)
(* compare_images                                                          *)
(***************************************************************************)
\* the weights set_weights is given, in tenths
WeightValues == {0, 4, 5, 6}
WeightDicts == UNION {[S -> WeightValues] : S \in SUBSET ComparatorNames}

InitManager ==
    /\ weights = setup_comparators
    /\ throwing \in SUBSET ComparatorNames
    /\ cmp_result = <<>>
    /\ SearchUnused
    /\ MetaIdle
    /\ PairIdle
    /\ SamplerIdle
    /\ HashIdle
    /\ GuiIdle

SetWeights ==
    /\ \E new \in WeightDicts : weights' = set_weights(weights, new)
    /\ UNCHANGED <<throwing, cmp_result, searchVars, metaVars, pairVars, samplerVars, hashVars, guiVars>>

CompareImages ==
    /\ \E image1, image2 \in Frames :
          cmp_result' = [image1 |-> image1, image2 |-> image2, weights |-> weights,
                         results |-> compare_images(weights, throwing, image1, image2)]
    /\ UNCHANGED <<weights, throwing, searchVars, metaVars, pairVars, samplerVars, hashVars, guiVars>>

NextManager == SetWeights \/ CompareImages

SpecManager == InitManager /\ [][NextManager]_vars

(***************************************************************************)
(* The pairwise comparators on their own: CompareThread.run (the compare   *)
(* tab), OptimizedVideoComparator.compare_videos, VideoComparator          *)
(* .compare_videos and PHashAlgorithm.compare_videos on two files          *)
(***************************************************************************)
MaxFrames == 3       \* largest max_frames asked of a pairwise comparison

\* a one frame video whose frame shares nothing with frame 1
VidE == [exists |-> TRUE, readable |-> TRUE, opens |-> TRUE, size |-> 1, head |-> 6,
         tail |-> 0, duration |-> 1, width |-> 10, frames |-> <<4>>]

PairKinds == FileKinds \cup {VidE}

Modes == {"aligned", "optimized", "full", "phash"}

PairUnused ==
    /\ video_files = <<>>
    /\ threshold = SIMILARITY_THRESHOLD
    /\ alg = "simple"
    /\ SearchIdle

InitCompare ==
    /\ files \in {fs \in [Paths -> PairKinds] : fs["p3"] = VidA}
    /\ mode \in Modes
    /\ video1_path = "p1"
    /\ video2_path \in {"p1", "p2"}
    /\ max_frames \in 0..MaxFrames
    /\ video_result = <<>>
    /\ weights = setup_comparators
    /\ throwing \in SUBSET ComparatorNames
    /\ cmp_result = <<>>
    /\ PairUnused
    /\ MetaIdle
    /\ SamplerIdle
    /\ HashIdle
    /\ GuiIdle

\* the compare tab: CompareThread.run
RunCompareThread ==
    /\ mode = "aligned"
    /\ DOMAIN video_result = {}
    /\ video_result' = CompareThreadRun(throwing, files[video1_path], files[video2_path], max_frames)
    /\ UNCHANGED <<mode, video1_path, video2_path, max_frames>>
    /\ UNCHANGED <<searchVars, managerVars, metaVars, samplerVars, hashVars, guiVars>>

\* OptimizedVideoComparator.compare_videos
RunOptimizedCompare ==
    /\ mode = "optimized"
    /\ DOMAIN video_result = {}
    /\ video_result' = OptimizedCompareVideos(weights, throwing, files[video1_path], files[video2_path])
    /\ UNCHANGED <<mode, video1_path, video2_path, max_frames>>
    /\ UNCHANGED <<searchVars, managerVars, metaVars, samplerVars, hashVars, guiVars>>

\* VideoComparator.compare_videos
RunFullCompare ==
    /\ mode = "full"
    /\ DOMAIN video_result = {}
    /\ video_result' = FullCompareVideos(weights, throwing, files[video1_path], files[video2_path])
    /\ UNCHANGED <<mode, video1_path, video2_path, max_frames>>
    /\ UNCHANGED <<searchVars, managerVars, metaVars, samplerVars, hashVars, guiVars>>

\* PHashAlgorithm.compare_videos
RunPHashCompare ==
    /\ mode = "phash"
    /\ DOMAIN video_result = {}
    /\ video_result' = PHashCompareVideos(files[video1_path], files[video2_path], max_frames)
    /\ UNCHANGED <<mode, video1_path, video2_path, max_frames>>
    /\ UNCHANGED <<searchVars, managerVars, metaVars, samplerVars, hashVars, guiVars>>

NextCompare ==
    \/ RunCompareThread
    \/ RunOptimizedCompare
    \/ RunFullCompare
    \/ RunPHashCompare

SpecCompare == InitCompare /\ [][NextCompare]_vars

(***************************************************************************)
(* The frame sampler on its own: FrameExtractor.extract_frames on one      *)
(* capture                                                                 *)
(***************************************************************************)
MaxTotal == 5        \* most frames in a video given to the sampler
MaxAsked == 4        \* largest num_frames

\* what cap.read gives for a frame index: 1, 2 a frame; 0 ret false; -1 raises
ReadOutcomes == {-1, 0, 1, 2}

Captures ==
    {[VidA EXCEPT !.opens = o, !.frames = fs] :
        o \in BOOLEAN, fs \in UNION {[1..n -> ReadOutcomes] : n \in 0..MaxTotal}}

InitSampler ==
    /\ cap \in Captures
    /\ frames_asked \in 0..MaxAsked
    /\ seeks = <<>>
    /\ extracted = <<>>
    /\ files = [p \in Paths |-> VidA]
    /\ PairUnused
    /\ ManagerInit
    /\ MetaIdle
    /\ PairIdle
    /\ HashIdle
    /\ GuiIdle

\* FrameExtractor.extract_frames: the whole body is inside try / except
\* Exception, so nothing is raised to the caller
ExtractFrames ==
    /\ DOMAIN extracted = {}
    /\ extracted' = [frames |-> extract_frames(cap, frames_asked), raised |-> "none"]
    /\ seeks' = IF cap.opens
                THEN SeeksMade(cap.frames, frame_positions(Len(cap.frames), frames_asked))
                ELSE <<>>
    /\ UNCHANGED <<cap, frames_asked>>
    /\ UNCHANGED <<searchVars, managerVars, metaVars, pairVars, hashVars, guiVars>>

NextSampler == ExtractFrames

SpecSampler == InitSampler /\ [][NextSampler]_vars

(***************************************************************************)
(* The content fingerprint on its own: _get_file_hash on the bytes of      *)
(* readable files.  A file is the sequence of its blocks of half a         *)
(* megabyte; md5 is taken to be injective, so a fingerprint is the byte    *)
(* string given to md5.                                                    *)
(***************************************************************************)
Digit0 == 48         \* ord('0')
Bytes == {0, Digit0 + 3}

\* str(file_size).encode(): the decimal digits, most significant first
RECURSIVE Decimal(_)
Decimal(n) == IF n < 10 THEN <<Digit0 + n>> ELSE Decimal(n \div 10) \o <<Digit0 + (n % 10)>>

\* the first megabyte alone, without the size
HashedContentNoSize(bytes) ==
    IF Len(bytes) > OneMB THEN SubSeq(bytes, 1, OneMB) ELSE bytes

\* _get_file_hash, the content given to hashlib.md5: f.read(1024 * 1024) +
\* str(file_size).encode() for a file above 1 MB, f.read() otherwise
HashedContent(bytes) ==
    IF Len(bytes) > OneMB
    THEN SubSeq(bytes, 1, OneMB) \o Decimal(Len(bytes))
    ELSE bytes

FileIds == {1, 2}
Contents == UNION {[1..n -> Bytes] : n \in 0..MaxSize}

InitFingerprint ==
    /\ file_contents \in [FileIds -> Contents]
    /\ file_hash_cache = <<>>
    /\ files = [p \in Paths |-> VidA]
    /\ PairUnused
    /\ ManagerInit
    /\ MetaIdle
    /\ PairIdle
    /\ SamplerIdle
    /\ GuiIdle

\* _get_file_hash(file_path) for a path not yet in _file_hash_cache
GetFileHash ==
    /\ \E k \in FileIds \ DOMAIN file_hash_cache :
          file_hash_cache' = [j \in DOMAIN file_hash_cache \cup {k} |->
                                 IF j = k THEN HashedContent(file_contents[k])
                                 ELSE file_hash_cache[j]]
    /\ UNCHANGED file_contents
    /\ UNCHANGED <<searchVars, managerVars, metaVars, pairVars, samplerVars, guiVars>>

NextFingerprint == GetFileHash

SpecFingerprint == InitFingerprint /\ [][NextFingerprint]_vars

(***************************************************************************)
(* The scan thread under MainWindow.closeEvent.  The search loops test no  *)
(* flag and the thread has no stop request: the only way the program ends  *)
(* a running scan is QThread.terminate(), which kills the thread wherever  *)
(* it is; neither the except nor the finally clause of run() is executed.  *)
(***************************************************************************)
\* optimized_scan_thread.isRunning()
Running == pc \in {"metadata", "group", "prefilter", "deep", "hashes", "phash_pairs",
                   "returned", "failed"}

InitClose ==
    /\ Init
    /\ alg \in {"simple", "phash"}

\* MainWindow.closeEvent: optimized_scan_thread.terminate() and wait(1000)
CloseEvent ==
    /\ Running
    /\ pc' = "terminated"
    /\ UNCHANGED <<files, video_files, threshold, alg, phash_calls, video_metadata, video_phashes,
                   similar_pairs, candidate_pairs, idx, returned, emitted, raised, prefiltered,
                   compared>>
    /\ UNCHANGED <<managerVars, metaVars, pairVars, samplerVars, hashVars, guiVars>>

NextClose ==
    \/ StartScan
    \/ CollectMetadata
    \/ GroupExactDuplicates
    \/ PrefilterCandidates
    \/ DeepCompare
    \/ SortAndReturn
    \/ ComputePHashes
    \/ PHashComparePair
    \/ PHashSortAndReturn
    \/ EmitResults
    \/ EmitOnException
    \/ CloseEvent

SpecClose == InitClose /\ [][NextClose]_vars

(***************************************************************************)
(* Properties                                                              *)
(***************************************************************************)
Fingerprint(p) == _get_file_hash(files[p])

\* two distinct paths whose files have the same bytes and the same fingerprint
IdenticalFiles(a, b) ==
    /\ a # b
    /\ ByteIdentical(files[a], files[b])
    /\ Fingerprint(a) # NoHash
    /\ Fingerprint(a) = Fingerprint(b)

\* the list the scan thread delivered
Delivered == emitted[Len(emitted)]

SamePair(e, a, b) == {e.a, e.b} = {a, b}

\* the search entry point returned its list (no exception left it)
HasReturned == pc \in {"returned", "finished"} /\ raised = "none"

NonIncreasing(list) == \A i, j \in DOMAIN list : i < j => RGe(list[i].score, list[j].score)

\* C1: when two distinct input paths hold byte-identical files with equal
\* fingerprints, the list a search with the simple or the phash algorithm
\* delivers contains that pair with score 1.0, whatever the threshold.
C1_IdenticalFilesReported ==
    (pc = "finished" /\ alg \in {"simple", "phash"}) =>
        \A a, b \in Range(video_files) :
            IdenticalFiles(a, b) =>
                \E k \in DOMAIN Delivered : SamePair(Delivered[k], a, b) /\ Delivered[k].score = One

\* C2: in the list the scan thread delivers, every unordered pair of paths
\* occurs at most once, whichever step produced the tuples.
C2_EachPairOnce ==
    pc = "finished" =>
        \A i, j \in DOMAIN Delivered :
            SamePair(Delivered[i], Delivered[j].a, Delivered[j].b) => i = j

\* the search returned the same pair twice and the thread removed one
C2_Witness ==
    /\ pc = "finished"
    /\ raised = "none"
    /\ \E i, j \in DOMAIN returned : i # j /\ SamePair(returned[i], returned[j].a, returned[j].b)
    /\ Len(Delivered) < Len(returned)

\* C3: for the input [A, B] with B a byte-identical copy of A and threshold
\* 0.5, the simple search delivers exactly one tuple: (A, B, 1.0, exact_duplicate).
C3_ExactCopyReportedOnce ==
    (/\ pc = "finished"
     /\ alg = "simple"
     /\ threshold = <<1, 2>>
     /\ Len(video_files) = 2
     /\ IdenticalFiles(video_files[1], video_files[2])) =>
        /\ Len(Delivered) = 1
        /\ Delivered[1].a = video_files[1]
        /\ Delivered[1].b = video_files[2]
        /\ Delivered[1].score = One
        /\ Delivered[1].type = "exact_duplicate"

\* the copy was also found by the frame comparison, with the same score
C3_Witness ==
    /\ pc = "finished"
    /\ alg = "simple"
    /\ threshold = <<1, 2>>
    /\ Len(video_files) = 2
    /\ IdenticalFiles(video_files[1], video_files[2])
    /\ Len(returned) = 2
    /\ returned[2].type = "comparison"
    /\ returned[2].score = One

\* the exact-duplicate grouping of the simple search resolved the pair
ExactDuplicate(a, b) == alg = "simple" /\ IdenticalFiles(a, b)

Reported(list, a, b, similarity) ==
    \E k \in DOMAIN list :
        /\ list[k].a = a /\ list[k].b = b
        /\ list[k].type # "exact_duplicate"
        /\ list[k].score = similarity

\* C4: a compared pair is in the returned list, as a tuple that is not an
\* exact duplicate, exactly when its score is >= the threshold; no such
\* tuple has a score below the threshold; a pair that is not an exact
\* duplicate is in the delivered list under the same condition.
C4_ThresholdDecides ==
    /\ \A k \in DOMAIN similar_pairs :
          similar_pairs[k].type # "exact_duplicate" => RGe(similar_pairs[k].score, threshold)
    /\ HasReturned =>
          /\ \A k \in DOMAIN returned :
                returned[k].type # "exact_duplicate" =>
                    /\ RGe(returned[k].score, threshold)
                    /\ <<returned[k].a, returned[k].b, returned[k].score>> \in compared
          /\ \A c \in compared : Reported(returned, c[1], c[2], c[3]) <=> RGe(c[3], threshold)
    /\ (pc = "finished" /\ raised = "none") =>
          \A c \in compared :
              ~ExactDuplicate(c[1], c[2]) =>
                  (Reported(Delivered, c[1], c[2], c[3]) <=> RGe(c[3], threshold))

\* a pair scoring exactly the threshold and a pair scoring below it were compared
C4_Witness ==
    /\ pc = "finished"
    /\ \E c \in compared : ~ExactDuplicate(c[1], c[2]) /\ c[3] = threshold
    /\ \E c \in compared : RLt(c[3], threshold)

\* C5: the list every search entry point returns holds the tuples found, by
\* non-increasing score, tuples of equal score in the order they were found;
\* the delivered list is non-increasing too.
C5_SortedStable ==
    /\ HasReturned =>
          /\ Len(returned) = Len(similar_pairs)
          /\ Range(returned) = Range(similar_pairs)
          /\ \A i, j \in DOMAIN returned :
                i < j => /\ RGe(returned[i].score, returned[j].score)
                         /\ returned[i].score = returned[j].score => returned[i].n < returned[j].n
    /\ pc = "finished" => NonIncreasing(Delivered)

\* the tuples were found out of order and two of them have the same score
C5_Witness ==
    /\ pc = "returned"
    /\ \E i, j \in DOMAIN similar_pairs : i < j /\ RLt(similar_pairs[i].score, similar_pairs[j].score)
    /\ \E i, j \in DOMAIN returned : i < j /\ returned[i].score = returned[j].score

\* C6: a failure to fingerprint, stat or decode one video never leaves the
\* search as an exception and never aborts the batch.
C6_FailureNeverAborts == raised = "none" /\ pc # "failed"

\* the decision the prefilter is specified to take: accept on equal
\* fingerprints, else reject on a size ratio below 0.5, a duration ratio
\* below 0.7 with both durations known, a width ratio below 0.7 with both
\* widths known, else accept
ReferenceDecision(m1, m2) ==
    LET equalPrints == m1.file_hash # NoHash /\ m1.file_hash = m2.file_hash
        sizeFails == 2 * Min(m1.size, m2.size) < Max(m1.size, m2.size)
        durationFails == /\ m1.duration > 0 /\ m2.duration > 0
                         /\ 10 * Min(m1.duration, m2.duration) < 7 * Max(m1.duration, m2.duration)
        widthFails == /\ m1.width > 0 /\ m2.width > 0
                      /\ 10 * Min(m1.width, m2.width) < 7 * Max(m1.width, m2.width)
    IN  IF equalPrints \/ ~(sizeFails \/ durationFails \/ widthFails) THEN "True" ELSE "False"

\* C7: for every pair of metadata records, _are_metadata_similar returns
\* the reference decision.
C7_MatchesReference ==
    meta_result # None => meta_result = ReferenceDecision(meta1, meta2)

Weighted(c) ==
    IF c \in throwing THEN Zero
    ELSE RMul(Compare(c, cmp_result.image1, cmp_result.image2), <<cmp_result.weights[c], 1>>)

WeightOf(c) == cmp_result.weights[c]
WorkingWeight(c) == IF c \in throwing THEN 0 ELSE cmp_result.weights[c]

WeightsTotal == 10       \* 1.0, in tenths

\* C10: weights that do not sum to 1.0 are rejected, so compare_images never
\* runs on a ComparisonManager whose weights sum to anything else.
C10_WeightsSumToOne ==
    DOMAIN cmp_result # {} =>
        cmp_result.weights["Histogram"] + cmp_result.weights["Perceptual Hash"] = WeightsTotal

(***************************************************************************)
(* Properties of the pairwise comparators                                  *)
(***************************************************************************)
Video1 == files[video1_path]
Video2 == files[video2_path]
HasVideoResult == DOMAIN video_result # {}

\* the number of frames the comparator in use asks of each video
AskedFrames ==
    CASE mode = "aligned" -> CompareThreadFrames(max_frames)
      [] mode = "optimized" -> OPTIMIZED_COMPARISON_FRAMES
      [] mode = "full" -> DEFAULT_FRAMES_TO_COMPARE
      [] OTHER -> PHashFrames(max_frames)

Frames1 == extract_frames(Video1, AskedFrames)
Frames2 == extract_frames(Video2, AskedFrames)
NoUsableFrames == Frames1 = <<>> \/ Frames2 = <<>>

FrameScore(f1, f2) == compare_images(weights, throwing, f1, f2)["overall"]

\* the score of slot i: 0.0 when frame i is missing in either video
SlotScore(i) ==
    IF i <= Len(Frames1) /\ i <= Len(Frames2) THEN FrameScore(Frames1[i], Frames2[i]) ELSE Zero

Mean(scores) == RDiv(SeqSum(scores), <<Len(scores), 1>>)

\* C11: in index-aligned comparison a slot that misses a frame in either video
\* scores 0.0 and the overall similarity is the sum of the slot scores divided
\* by the number of slots asked for, however many frames were extracted.
C11_MeanOverAllSlots ==
    (HasVideoResult /\ mode \in {"aligned", "optimized"}) =>
        video_result.similarity = Mean([i \in 1..AskedFrames |-> SlotScore(i)])

\* the slots in which both videos have a frame
ValidSlots == {i \in 1..AskedFrames : i <= Len(Frames1) /\ i <= Len(Frames2)}

RECURSIVE SumOver(_)
SumOver(slots) ==
    IF slots = {} THEN Zero
    ELSE LET i == CHOOSE k \in slots : TRUE
         IN  RAdd(SlotScore(i), SumOver(slots \ {i}))

\* C11, amended: a slot that misses a frame in either video is left out of the
\* mean: the overall similarity is the sum of the scores of the slots in which
\* both videos have a frame divided by the number of those slots, and 0.0
\* when there is none.  The compare tab still lists the missing slot with 0.0
\* in frame_comparisons; OptimizedVideoComparator lists only the compared slots.
C11_MeanOverValidSlots ==
    (HasVideoResult /\ mode \in {"aligned", "optimized"}) =>
        /\ video_result.similarity =
              IF ValidSlots = {} THEN Zero
              ELSE RDiv(SumOver(ValidSlots), <<Cardinality(ValidSlots), 1>>)
        /\ mode = "aligned" =>
              /\ Len(video_result.frame_comparisons) = AskedFrames
              /\ \A i \in 1..AskedFrames : video_result.frame_comparisons[i] = SlotScore(i)
        /\ mode = "optimized" =>
              /\ Len(video_result.frame_comparisons) = Cardinality(ValidSlots)
              /\ \A i \in ValidSlots : video_result.frame_comparisons[i] = SlotScore(i)

\* the compare tab compared two videos of which one lacks a frame for some
\* slot, and the slots that have both frames scored
C11_Witness ==
    /\ HasVideoResult
    /\ mode = "aligned"
    /\ ValidSlots # {}
    /\ ValidSlots # 1..AskedFrames
    /\ RGt(video_result.similarity, Zero)

\* C12: when either video yields no usable frame, the index-aligned, the
\* optimized and the best-match comparator all return similarity 0.0 with an
\* error field in the result.
C12_NoFramesIsAnError ==
    (HasVideoResult /\ mode \in {"aligned", "optimized", "full"} /\ NoUsableFrames) =>
        /\ video_result.similarity = Zero
        /\ video_result.error

\* the highest score of frame i of the first video over the frames of the second
BestOver(i) ==
    LET scores == {FrameScore(Frames1[i], Frames2[j]) : j \in 1..Len(Frames2)}
    IN  CHOOSE b \in scores : \A t \in scores : RGe(b, t)

\* C13: in best-match comparison with both frame lists non-empty,
\* frame_comparisons has one entry per frame of the first video, the entry is
\* the highest score over the frames of the second, and the similarity is the
\* mean of these best scores over all frames of the first video.
C13_BestMatchOverAllFrames ==
    (HasVideoResult /\ mode = "full" /\ ~NoUsableFrames) =>
        /\ Len(video_result.frame_comparisons) = Len(Frames1)
        /\ \A i \in 1..Len(Frames1) : video_result.frame_comparisons[i] = BestOver(i)
        /\ video_result.similarity = Mean([i \in 1..Len(Frames1) |-> BestOver(i)])

Hashes1 == _video_to_phashes(Video1, AskedFrames)
Hashes2 == _video_to_phashes(Video2, AskedFrames)

\* the smallest Hamming distance from h to a hash of the list
MinDistance(h, list) ==
    LET ds == {_hamming_distance(h, list[k]) : k \in 1..Len(list)}
    IN  CHOOSE d \in ds : \A e \in ds : d <= e

\* 1 - distance / bit_length, clamped to [0, 1]
DistanceSimilarity(d) ==
    IF d >= HashLen THEN Zero ELSE IF d <= 0 THEN One ELSE Rat(HashLen - d, HashLen)

\* the result is the best-match mean of the hashes of short against long
BestMatchMean(short, long) ==
    /\ Len(video_result.frame_comparisons) = Len(short)
    /\ \A i \in 1..Len(short) :
          video_result.frame_comparisons[i].similarity =
              DistanceSimilarity(MinDistance(short[i], long))
    /\ video_result.similarity =
          Mean([i \in 1..Len(short) |-> DistanceSimilarity(MinDistance(short[i], long))])

\* C14: PHashAlgorithm.compare_videos returns similarity 0.0 and no frame
\* comparisons when either hash list is empty; otherwise one frame comparison
\* per hash of the list with fewer hashes, each 1 - (smallest Hamming distance
\* to a hash of the other list) / 64 clamped to [0, 1], and their mean as the
\* similarity.
C14_PHashBestMatchMean ==
    (HasVideoResult /\ mode = "phash") =>
        IF Hashes1 = <<>> \/ Hashes2 = <<>>
        THEN video_result.similarity = Zero /\ video_result.frame_comparisons = <<>>
        ELSE \/ Len(Hashes1) <= Len(Hashes2) /\ BestMatchMean(Hashes1, Hashes2)
             \/ Len(Hashes2) <= Len(Hashes1) /\ BestMatchMean(Hashes2, Hashes1)

\* the first video has more hashes than the second, a hash of the second has
\* no exact counterpart, and the similarity is strictly between 0 and 1
C14_Witness ==
    /\ HasVideoResult
    /\ mode = "phash"
    /\ Len(Hashes1) > Len(Hashes2)
    /\ Hashes2 # <<>>
    /\ \E i \in DOMAIN video_result.frame_comparisons :
          video_result.frame_comparisons[i].hamming_distance > 0
    /\ RGt(video_result.similarity, Zero)
    /\ RLt(video_result.similarity, One)

\* the same comparison with the two videos exchanged
Exchanged ==
    IF mode = "aligned"
    THEN CompareThreadRun(throwing, Video2, Video1, max_frames)
    ELSE OptimizedCompareVideos(weights, throwing, Video2, Video1)

\* C20: in index-aligned mode compare(A, B, n) and compare(B, A, n) have the
\* same similarity, also when A and B yield different numbers of frames.
C20_IndexAlignedSymmetric ==
    (HasVideoResult /\ mode \in {"aligned", "optimized"}) =>
        video_result.similarity = Exchanged.similarity

\* two different videos with different numbers of frames were compared slot by
\* slot and some slot scored
C20_Witness ==
    /\ HasVideoResult
    /\ mode = "aligned"
    /\ video1_path # video2_path
    /\ Len(Frames1) > Len(Frames2)
    /\ Frames2 # <<>>
    /\ RGt(video_result.similarity, Zero)
    /\ RLt(video_result.similarity, One)

(***************************************************************************)
(* Properties of the perceptual hash search                                *)
(***************************************************************************)
PHashSearchDone == alg = "phash" /\ pc \in {"returned", "finished"}

\* the hash list of a path, as _video_to_phashes computes it
HashList(p) == _video_to_phashes(files[p], PHASH_FRAMES)

\* the share of the hashes of short that have a hash of long within the cutoff
Coverage(short, long) ==
    Rat(Cardinality({k \in 1..Len(short) :
                        \E j \in 1..Len(long) :
                            _hamming_distance(short[k], long[j]) <= PHASH_HAMMING_THRESHOLD}),
        Len(short))

\* r is the coverage ratio of the pair, the shorter list against the longer
IsCoverageRatio(r, a, b) ==
    \/ Len(HashList(a)) <= Len(HashList(b)) /\ r = Coverage(HashList(a), HashList(b))
    \/ Len(HashList(b)) <= Len(HashList(a)) /\ r = Coverage(HashList(b), HashList(a))

\* every pair of different videos that both have hashes was scored with the
\* coverage ratio, and that ratio is the score of every reported pair
ScoredByCoverage ==
    /\ \A a, b \in Range(video_files) :
          (a # b /\ HashList(a) # <<>> /\ HashList(b) # <<>>) =>
              \E c \in compared : {c[1], c[2]} = {a, b} /\ IsCoverageRatio(c[3], a, b)
    /\ \A c \in compared : IsCoverageRatio(c[3], c[1], c[2])
    /\ \A i \in DOMAIN returned : IsCoverageRatio(returned[i].score, returned[i].a, returned[i].b)

HasExtracted == DOMAIN extracted # {}
total_frames == Len(cap.frames)
NoReadRaises == \A k \in 1..total_frames : cap.frames[k] >= 0

\* pos is an integer nearest to i * (total_frames - 1) / (n - 1)
IsNearest(pos, i, n) == 2 * Abs(pos * (n - 1) - i * (total_frames - 1)) <= n - 1

SamplePositions ==
    IF total_frames <= frames_asked
    THEN [i \in 1..total_frames |-> i - 1]
    ELSE [i \in 1..frames_asked |->
            IF frames_asked = 1 THEN 0
            ELSE ((i - 1) * (total_frames - 1)) \div (frames_asked - 1)]

\* the reads that were made: those before the first read that raised
ReadsMade ==
    LET raising == {i \in 1..Len(SamplePositions) : cap.frames[SamplePositions[i] + 1] < 0}
        last == IF raising = {} THEN Len(SamplePositions)
                ELSE (CHOOSE i \in raising : \A k \in raising : i <= k) - 1
    IN  [i \in 1..last |-> cap.frames[SamplePositions[i] + 1]]

\* C17: extract_frames never raises; a container that cannot be opened gives
\* the empty list; otherwise the result is exactly the frames that were
\* decoded, in sampling order, the failed reads skipped; it never has more
\* than min(n, total_frames) frames.
C17_ReturnsWhatWasDecoded ==
    HasExtracted =>
        /\ extracted.raised = "none"
        /\ ~cap.opens => extracted.frames = <<>>
        /\ cap.opens => extracted.frames = SelectSeq(ReadsMade, LAMBDA fr : fr > 0)
        /\ Len(extracted.frames) <= Min(frames_asked, total_frames)

\* a capture with more frames than asked for, of which a sampled one failed to
\* decode before another one decoded
C17_Witness ==
    /\ HasExtracted
    /\ cap.opens
    /\ total_frames > frames_asked
    /\ extracted.frames # <<>>
    /\ Len(extracted.frames) < frames_asked
    /\ \E i, j \in 1..Len(ReadsMade) : i < j /\ ReadsMade[i] = 0 /\ ReadsMade[j] > 0

(***************************************************************************)
(* Properties of the content fingerprint                                   *)
(***************************************************************************)
Hashed == DOMAIN file_hash_cache
SizeOf(k) == Len(file_contents[k])
FirstMB(k) == SubSeq(file_contents[k], 1, Min(OneMB, SizeOf(k)))

\* C18: the fingerprint of a file of at most 1 MB is the digest of its whole
\* content, that of a larger file the digest of its first megabyte followed by
\* the decimal string of its size; two files of different sizes never give the
\* digest the same bytes, and two files above 1 MB with the same size and the
\* same first megabyte have the same fingerprint whatever the rest.
C18_FingerprintInput ==
    /\ \A k \in Hashed :
          file_hash_cache[k] =
              IF SizeOf(k) <= OneMB THEN file_contents[k]
              ELSE FirstMB(k) \o Decimal(SizeOf(k))
    /\ \A j, k \in Hashed :
          /\ SizeOf(j) # SizeOf(k) => file_hash_cache[j] # file_hash_cache[k]
          /\ (SizeOf(j) > OneMB /\ SizeOf(j) = SizeOf(k) /\ FirstMB(j) = FirstMB(k)) =>
                file_hash_cache[j] = file_hash_cache[k]

\* two files above 1 MB with the same size and first megabyte but different
\* bytes after it were both hashed, to the same fingerprint
C18_Witness ==
    /\ Hashed = FileIds
    /\ SizeOf(1) > OneMB
    /\ SizeOf(1) = SizeOf(2)
    /\ FirstMB(1) = FirstMB(2)
    /\ file_contents[1] # file_contents[2]
    /\ file_hash_cache[1] = file_hash_cache[2]

(***************************************************************************)
(* Properties of the scan thread under closeEvent                          *)
(***************************************************************************)
\* the worker runs no more
Stopped == pc \in {"finished", "terminated"}

\* C19: a search that is asked to stop ends cooperatively: it starts no further
\* pair and the worker itself reaches the end of run(), where the result has
\* been emitted; the thread is never killed while it is at work.
C19_StopsCooperatively ==
    Stopped => (pc = "finished" /\ Len(emitted) = 1)

(***************************************************************************)
(* Self-similarity of the pairwise comparators                             *)
(***************************************************************************)
\* every frame scores 1.0 against itself
FramesMatchThemselves == \A fr \in Frames : FrameScore(fr, fr) = One

\* C21: a video with at least one decodable frame compared with itself has
\* similarity 1.0 in every pairwise comparator, given that a frame scores 1.0
\* against itself and a hash is at distance 0 from itself.
C21_SelfSimilarity ==
    (HasVideoResult /\ video1_path = video2_path /\ Frames1 # <<>> /\ FramesMatchThemselves) =>
        video_result.similarity = One

\* the compare tab compared a video with itself, with fewer frames in the
\* video than slots asked for; and so did the best-match comparator on a
\* video whose frames differ from one another
C21_Witness ==
    /\ HasVideoResult
    /\ video1_path = video2_path
    /\ FramesMatchThemselves
    /\ \/ mode = "aligned" /\ Frames1 # <<>> /\ Len(Frames1) < AskedFrames
       \/ mode = "full" /\ \E i, j \in DOMAIN Frames1 : Frames1[i] # Frames1[j]
    /\ video_result.similarity = One

(***************************************************************************)
(* Monotonicity of the metadata prefilter                                  *)
(***************************************************************************)
\* minimum allowed ratios: the two of the code and a stricter one
Tolerances == {<<1, 2>>, <<7, 10>>, <<9, 10>>}
ToleranceTriples == Tolerances \X Tolerances \X Tolerances

\* the limits the code has
CodeTolerances ==
    <<<<SizeRatioNum, SizeRatioDen>>, <<DurationRatioNum, DurationRatioDen>>,
      <<WidthRatioNum, WidthRatioDen>>>>

\* every minimum ratio of t is at least that of u
StricterThan(t, u) == \A k \in 1..3 : RGe(t[k], u[k])

AcceptedAt(t) == MetadataSimilarAt(meta1, meta2, t[1], t[2], t[3]) = "True"

\* C22: raising the minimum allowed size, duration or width ratio never adds a
\* pair to the candidates: a pair accepted under stricter limits is accepted
\* under looser ones, the limits of the code included.
C22_PrefilterMonotone ==
    meta_result # None =>
        /\ meta_result = MetadataSimilarAt(meta1, meta2, CodeTolerances[1], CodeTolerances[2],
                                           CodeTolerances[3])
        /\ \A t, u \in ToleranceTriples :
              (StricterThan(t, u) /\ AcceptedAt(t)) => AcceptedAt(u)

\* a pair without a common fingerprint that the code accepts and stricter
\* limits reject
C22_Witness ==
    /\ meta_result = "True"
    /\ meta1.file_hash # meta2.file_hash
    /\ \E t \in ToleranceTriples : StricterThan(t, CodeTolerances) /\ ~AcceptedAt(t)

(***************************************************************************)
(* Pairs resolved as exact duplicates and the candidate enumeration        *)
(***************************************************************************)
\* the pair {a, b} was appended by the grouping step
EmittedAsExact(a, b) ==
    \E k \in DOMAIN similar_pairs :
        similar_pairs[k].type = "exact_duplicate" /\ SamePair(similar_pairs[k], a, b)

\* C24: in the simple search a pair the grouping step appended as an exact
\* duplicate is not given to the metadata prefilter, is not a candidate, is
\* not deep-compared, and is once in the list the search returns.
C24_ExactPairsSkipped ==
    (alg = "simple" /\ pc \in {"deep", "returned", "finished"}) =>
        \A a, b \in Range(video_files) :
            EmittedAsExact(a, b) =>
                /\ \A q \in prefiltered : {q[1], q[2]} # {a, b}
                /\ \A k \in DOMAIN candidate_pairs :
                      {candidate_pairs[k][1], candidate_pairs[k][2]} # {a, b}
                /\ \A c \in compared : {c[1], c[2]} # {a, b}
                /\ \A i, j \in DOMAIN returned :
                      (SamePair(returned[i], a, b) /\ SamePair(returned[j], a, b)) => i = j

(***************************************************************************)
(* Symmetry of the hash comparison for lists of unequal length             *)
(***************************************************************************)
\* PHashAlgorithm.compare_videos with the two videos exchanged
PHashExchanged == PHashCompareVideos(Video2, Video1, max_frames)

\* C29: when the two videos yield different numbers of hashes,
\* compare_videos(A, B) and compare_videos(B, A) of the hash algorithm have the
\* same similarity.
C29_SymmetricOnUnequalLengths ==
    (HasVideoResult /\ mode = "phash" /\ Len(Hashes1) # Len(Hashes2)) =>
        video_result.similarity = PHashExchanged.similarity

\* the first video has fewer hashes than the second, and the mean of the best
\* matches of the longer list would be another number
C29_Witness ==
    /\ HasVideoResult
    /\ mode = "phash"
    /\ Hashes1 # <<>>
    /\ Len(Hashes1) < Len(Hashes2)
    /\ video_result.similarity = PHashExchanged.similarity
    /\ ~BestMatchMean(Hashes2, Hashes1)

(***************************************************************************)
(* Self pairs in the result of a search                                    *)
(***************************************************************************)
\* C30: no tuple the simple or the phash search returns, and no tuple the scan
\* thread delivers, pairs a path with itself, also when the list of paths
\* holds a path more than once.
C30_NoSelfPairs ==
    alg \in {"simple", "phash"} =>
        /\ \A k \in DOMAIN returned : returned[k].a # returned[k].b
        /\ \A n \in DOMAIN emitted : \A k \in DOMAIN emitted[n] : emitted[n][k].a # emitted[n][k].b

(***************************************************************************)
(* The request of a search: the scan button of the window, the menu of the *)
(* console, the scan thread and the handlers of its two signals            *)
(***************************************************************************)
MinThreshold == <<1, 10>>    \* if not (0.1 <= threshold <= 1.0); max(0.1, ...)
MaxThreshold == <<1, 1>>

InRange(r) == RGe(r, MinThreshold) /\ RGe(MaxThreshold, r)

\* float(threshold_text) if threshold_text else Config.SIMILARITY_THRESHOLD
GuiThreshold(text) == IF text.kind = "empty" THEN SIMILARITY_THRESHOLD ELSE text.value

\* a range test that lets every number through
GuiAcceptsNumbers(text) == text.kind # "text"

\* the try block of start_optimized_scan: float() raises ValueError on a text
\* that is no number, and so does the range test
GuiAccepts(text) == text.kind # "text" /\ InRange(GuiThreshold(text))

\* __main__.main, choice 3: input(...) or str(Config.SIMILARITY_THRESHOLD),
\* max(0.1, min(1.0, threshold)), and the default when float() raises
ConsoleThreshold(text) ==
    IF text.kind = "text" THEN SIMILARITY_THRESHOLD
    ELSE RMax(MinThreshold, RMin(MaxThreshold, GuiThreshold(text)))

\* what the user can type
ThresholdTexts ==
    {EmptyText, BadText, TextNumber(<<1, 20>>), TextNumber(<<1, 10>>), TextNumber(<<7, 10>>),
     TextNumber(<<2, 1>>)}

\* a new thread, a new comparator: nothing collected, nothing compared
FreshSearch ==
    /\ pc' = "idle"
    /\ video_metadata' = <<>>
    /\ video_phashes' = <<>>
    /\ similar_pairs' = <<>>
    /\ candidate_pairs' = <<>>
    /\ idx' = 0
    /\ returned' = <<>>
    /\ emitted' = <<>>
    /\ raised' = "none"
    /\ prefiltered' = {}
    /\ compared' = {}
    /\ phash_calls' = <<>>

searchWork == <<pc, video_metadata, video_phashes, similar_pairs, candidate_pairs, idx, returned,
                emitted, raised, prefiltered, compared, phash_calls>>

\* the pair of the list is displayed: both files exist
Shown(pairs, k, fs) == fs[pairs[k].a].exists /\ fs[pairs[k].b].exists

\* the checkboxes create_file_widget appends for path p, all unchecked
Checkboxes(p, pairs, fs) ==
    LET n == Cardinality({k \in DOMAIN pairs : Shown(pairs, k, fs) /\ pairs[k].a = p})
             + Cardinality({k \in DOMAIN pairs : Shown(pairs, k, fs) /\ pairs[k].b = p})
    IN  [j \in 1..n |-> FALSE]

\* create_pair_buttons(pairs): the widgets are removed, the marks are cleared,
\* one widget with two checkboxes is made for every pair whose files exist;
\* file_reference_count is left as it is
create_pair_buttons(pairs, fs) ==
    /\ marked_for_deletion' = {}
    /\ pair_widgets' = [p \in Paths |-> Checkboxes(p, pairs, fs)]
    /\ UNCHANGED file_reference_count

\* MainWindow.start_optimized_scan, a click on the enabled scan button with
\* `text` in the threshold field: a warning and nothing else when the
\* threshold is refused; otherwise the controls are disabled, the pair
\* widgets removed and the thread started
start_optimized_scan(text) ==
    /\ scan_ui_enabled
    /\ alg \in {"simple", "phash"}
    /\ threshold_text' = text
    /\ deleted' = {}
    /\ IF GuiAccepts(text)
       THEN /\ threshold' = GuiThreshold(text)
            /\ scan_ui_enabled' = FALSE
            /\ pair_widgets' = [p \in Paths |-> <<>>]
            /\ signals' = <<>>
            /\ handled' = 0
            /\ FreshSearch
       ELSE UNCHANGED <<threshold, scan_ui_enabled, pair_widgets, signals, handled, searchWork>>
    /\ UNCHANGED <<files, video_files, alg, current_pairs, marked_for_deletion, file_reference_count>>
    /\ UNCHANGED <<managerVars, metaVars, pairVars, samplerVars, hashVars, dialogVars>>

StartOptimizedScan == \E text \in ThresholdTexts : start_optimized_scan(text)

\* __main__.main, choice 3, when no search is running
MainMenuSearch ==
    /\ alg = "full"
    /\ pc \in {"none", "returned"}
    /\ \E text \in ThresholdTexts :
          /\ threshold_text' = text
          /\ threshold' = ConsoleThreshold(text)
    /\ FreshSearch
    /\ UNCHANGED <<files, video_files, alg, scan_ui_enabled, signals, handled, markVars>>
    /\ UNCHANGED <<managerVars, metaVars, pairVars, samplerVars, hashVars, dialogVars>>

\* MainWindow.optimized_scan_finished(results), the slot of result_signal
OptimizedScanFinished ==
    /\ handled < Len(signals)
    /\ signals[handled + 1].name = "result_signal"
    /\ handled' = handled + 1
    /\ deleted' = {}
    /\ LET results == signals[handled + 1].payload
       IN  IF Len(results) = 0
           THEN UNCHANGED <<current_pairs, marked_for_deletion, pair_widgets, file_reference_count>>
           ELSE /\ current_pairs' = results
                /\ create_pair_buttons(results, files)
    /\ UNCHANGED <<searchVars, threshold_text, scan_ui_enabled, signals>>
    /\ UNCHANGED <<managerVars, metaVars, pairVars, samplerVars, hashVars, dialogVars>>

\* MainWindow.scan_thread_finished, the slot of finished_signal
ScanThreadFinished ==
    /\ handled < Len(signals)
    /\ signals[handled + 1].name = "finished_signal"
    /\ handled' = handled + 1
    /\ scan_ui_enabled' = TRUE
    /\ UNCHANGED <<searchVars, threshold_text, signals, markVars>>
    /\ UNCHANGED <<managerVars, metaVars, pairVars, samplerVars, hashVars, dialogVars>>

RequestKinds == {VidA, VidB, Broken, Gone}

InitRequest ==
    /\ files \in [Paths -> RequestKinds]
    /\ video_files \in PathLists
    /\ alg \in Algorithms
    /\ alg = "full" => NoRepeats(video_files)
    /\ threshold = SIMILARITY_THRESHOLD
    /\ pc = "none"
    /\ video_metadata = <<>>
    /\ video_phashes = <<>>
    /\ similar_pairs = <<>>
    /\ candidate_pairs = <<>>
    /\ idx = 0
    /\ returned = <<>>
    /\ emitted = <<>>
    /\ raised = "none"
    /\ prefiltered = {}
    /\ compared = {}
    /\ phash_calls = <<>>
    /\ ManagerInit
    /\ MetaIdle
    /\ PairIdle
    /\ SamplerIdle
    /\ HashIdle
    /\ GuiIdle

NextRequest ==
    \/ StartOptimizedScan
    \/ MainMenuSearch
    \/ Next
    \/ OptimizedScanFinished
    \/ ScanThreadFinished

SpecRequest == InitRequest /\ [][NextRequest]_vars

\* the text is a number outside 0.1 .. 1.0
OutOfRange(text) == text.kind = "number" /\ ~InRange(text.value)

\* C23: a search requested with a threshold outside the accepted range is
\* refused before any work: the request step starts no search, and no file
\* is fingerprinted, no frame extracted, no pair compared, no list produced.
C23_OutOfRangeRejected ==
    [][((StartOptimizedScan \/ MainMenuSearch) /\ OutOfRange(threshold_text')) =>
          UNCHANGED <<threshold, searchWork, signals>>]_vars

\* C23, amended: the scan button refuses a threshold outside 0.1 .. 1.0, and a
\* text that is no number, before any work: no thread is started, the
\* controls stay enabled and nothing of the search state changes; the console
\* menu does not refuse, it runs the search with the threshold moved to the
\* nearest end of the range.
C23_WindowRefusesConsoleClamps ==
    [][/\ (StartOptimizedScan /\ (OutOfRange(threshold_text') \/ threshold_text' = BadText)) =>
             UNCHANGED <<threshold, searchWork, signals, scan_ui_enabled, pair_widgets>>
       /\ (MainMenuSearch /\ OutOfRange(threshold_text')) =>
             /\ pc' = "idle"
             /\ threshold' \in {MinThreshold, MaxThreshold}
             /\ RGe(threshold_text'.value, MaxThreshold) => threshold' = MaxThreshold
             /\ RGe(MinThreshold, threshold_text'.value) => threshold' = MinThreshold]_vars

\* the scan button was clicked with 2.0 in the field after a scan that found
\* pairs: the controls are enabled and the finished thread is all there is
C23_Witness ==
    /\ alg = "simple"
    /\ OutOfRange(threshold_text)
    /\ pc = "finished"
    /\ Len(current_pairs) > 0
    /\ scan_ui_enabled
    /\ handled = 2

(***************************************************************************)
(* The two signals of the scan thread                                      *)
(***************************************************************************)
\* run() of the scan thread has been entered and has not returned
ThreadRunning == pc = "idle" \/ Running

ResultThenFinished ==
    /\ Len(signals) = 2
    /\ signals[1].name = "result_signal"
    /\ signals[2].name = "finished_signal"
    /\ Len(emitted) = 1
    /\ signals[1].payload = emitted[1]

\* C28: every run of the scan thread (no videos, normal completion, exception
\* in the search) emits result_signal once and then finished_signal once as
\* its last signal; the controls are disabled only while a thread runs or its
\* finished_signal waits for its slot, which enables them; a thread is
\* started only with the controls enabled and no thread running.
C28_ResultThenFinishedOnce ==
    /\ [](alg \in {"simple", "phash"} =>
            /\ ThreadRunning => (Len(signals) = 0 /\ Len(emitted) = 0)
            /\ pc = "finished" => ResultThenFinished
            /\ ~scan_ui_enabled =>
                  \/ ThreadRunning
                  \/ pc = "finished" /\ handled < 2 /\ ResultThenFinished
            /\ (pc = "finished" /\ handled = 2) => scan_ui_enabled)
    /\ [][(alg \in {"simple", "phash"} /\ pc' = "idle" /\ pc # "idle") =>
             (scan_ui_enabled /\ ~ThreadRunning /\ ~scan_ui_enabled')]_vars

\* a search that raised: the empty list was delivered, finished_signal came
\* last, both were handled and the controls are enabled again
C28_Witness ==
    /\ alg = "simple"
    /\ pc = "finished"
    /\ raised # "none"
    /\ ResultThenFinished
    /\ handled = 2
    /\ scan_ui_enabled
    /\ threshold_text # DefaultText

(***************************************************************************)
(* The comparison dialog: its extraction thread and safe_close             *)
(***************************************************************************)
DialogKinds == {VidA, VidB, Broken}

\* QThread.isRunning(): run() was entered and has not ended
IsRunning == extraction_thread.pc \in {"begin", "loop", "after", "similarities", "emit"}

\* extract_frames_new: SafeFrameExtractionThread(self.video_paths, num) is
\* started; open_comparison_dialog hands the dialog two paths
InitDialog ==
    /\ files \in [Paths -> DialogKinds]
    /\ \E paths \in [1..2 -> Paths] :
          extraction_thread =
              [video_paths |-> paths, num_frames |-> DEFAULT_FRAMES_TO_COMPARE,
               _is_running |-> TRUE, interruption_requested |-> FALSE, pc |-> "begin", i |-> 0,
               results |-> <<>>, emitted |-> <<>>]
    /\ dialog = [state |-> "open", closed_running |-> FALSE, results_at_close |-> 0,
                 emitted_at_close |-> 0]
    /\ video_files = <<>>
    /\ threshold = SIMILARITY_THRESHOLD
    /\ alg = "simple"
    /\ SearchIdle
    /\ ManagerInit
    /\ MetaIdle
    /\ PairIdle
    /\ SamplerIdle
    /\ HashIdle
    /\ threshold_text = DefaultText
    /\ scan_ui_enabled = TRUE
    /\ signals = <<>>
    /\ handled = 0
    /\ current_pairs = <<>>
    /\ marked_for_deletion = {}
    /\ pair_widgets = [p \in Paths |-> <<>>]
    /\ file_reference_count = {}
    /\ deleted = {}

dialogRest == <<searchVars, managerVars, metaVars, pairVars, samplerVars, hashVars, requestVars,
                markVars>>

\* run(), lines 90-97: the first test of _is_running
RunBegins ==
    /\ extraction_thread.pc = "begin"
    /\ extraction_thread' =
          IF ~extraction_thread._is_running
          THEN [extraction_thread EXCEPT !.pc = "ended"]
          ELSE [extraction_thread EXCEPT !.pc = "loop", !.i = 1]
    /\ UNCHANGED <<dialog, dialogRest>>

\* run(), lines 99-110: one pass of the loop over video_paths, which tests
\* _is_running and extracts the frames of one video
ExtractLoop ==
    /\ extraction_thread.pc = "loop"
    /\ LET t == extraction_thread
       IN  extraction_thread' =
              IF t.i > Len(t.video_paths) \/ ~t._is_running
              THEN [t EXCEPT !.pc = "after"]
              ELSE [t EXCEPT !.i = t.i + 1,
                             !.results = Append(t.results,
                                 [path |-> t.video_paths[t.i],
                                  frames |-> extract_frames(files[t.video_paths[t.i]],
                                                            t.num_frames)])]
    /\ UNCHANGED <<dialog, dialogRest>>

\* run(), lines 113-114
AfterLoop ==
    /\ extraction_thread.pc = "after"
    /\ extraction_thread' =
          [extraction_thread EXCEPT
              !.pc = IF extraction_thread._is_running THEN "similarities" ELSE "ended"]
    /\ UNCHANGED <<dialog, dialogRest>>

\* run(), lines 117-124: calculate_similarities
CalculateSimilarities ==
    /\ extraction_thread.pc = "similarities"
    /\ extraction_thread' = [extraction_thread EXCEPT !.pc = "emit"]
    /\ UNCHANGED <<dialog, dialogRest>>

\* run(), lines 126-128: frames_extracted.emit(results, similarities)
EmitFramesExtracted ==
    /\ extraction_thread.pc = "emit"
    /\ extraction_thread' =
          [extraction_thread EXCEPT
              !.pc = "ended",
              !.emitted = IF extraction_thread._is_running
                          THEN Append(extraction_thread.emitted, "frames_extracted")
                          ELSE extraction_thread.emitted]
    /\ UNCHANGED <<dialog, dialogRest>>

\* safe_close, lines 573-574: requestInterruption() on a running thread, and
\* the wait begins; _is_running is not touched, stop() is called nowhere
SafeClose ==
    /\ dialog.state = "open"
    /\ IF IsRunning
       THEN /\ extraction_thread' = [extraction_thread EXCEPT !.interruption_requested = TRUE]
            /\ dialog' = [state |-> "waiting", closed_running |-> TRUE,
                          results_at_close |-> Len(extraction_thread.results),
                          emitted_at_close |-> Len(extraction_thread.emitted)]
       ELSE /\ dialog' = [dialog EXCEPT !.state = "closed"]
            /\ UNCHANGED extraction_thread
    /\ UNCHANGED dialogRest

\* wait(3000) returns True: the thread has ended
WaitReturns ==
    /\ dialog.state = "waiting"
    /\ ~IsRunning
    /\ dialog' = [dialog EXCEPT !.state = "closed"]
    /\ UNCHANGED <<extraction_thread, dialogRest>>

\* wait(3000) returns False: terminate() and wait()
WaitTimesOut ==
    /\ dialog.state = "waiting"
    /\ IsRunning
    /\ extraction_thread' = [extraction_thread EXCEPT !.pc = "terminated"]
    /\ dialog' = [dialog EXCEPT !.state = "closed"]
    /\ UNCHANGED dialogRest

NextDialog ==
    \/ RunBegins
    \/ ExtractLoop
    \/ AfterLoop
    \/ CalculateSimilarities
    \/ EmitFramesExtracted
    \/ SafeClose
    \/ WaitReturns
    \/ WaitTimesOut

SpecDialog == InitDialog /\ [][NextDialog]_vars

\* C27: when the dialog is closed while the extraction runs, the thread sees
\* the stop request at its next test between videos: no further video is
\* extracted, frames_extracted is not emitted afterwards, and the thread ends
\* by itself, not by terminate().
C27_StopsBetweenVideos ==
    dialog.closed_running =>
        /\ Len(extraction_thread.results) = dialog.results_at_close
        /\ Len(extraction_thread.emitted) = dialog.emitted_at_close
        /\ extraction_thread.pc # "terminated"
        /\ dialog.state = "closed" => extraction_thread.pc = "ended"

(***************************************************************************)
(* The window: pairs on display, deletion marks, selection, deletions      *)
(***************************************************************************)
MaxMarks == 2        \* largest count kept in file_reference_count

\* dict.get(k, default) and d[k] = v on a dict kept as a set of key-value pairs
Get(d, k, default) ==
    IF \E e \in d : e[1] = k THEN (CHOOSE e \in d : e[1] = k)[2] ELSE default
Put(d, k, v) == {e \in d : e[1] # k} \cup {<<k, v>>}

\* toggle_mark_deletion(file_path, marked), the slot of checkbox.toggled
toggle_mark_deletion(file_path, marked) ==
    LET count == IF marked
                 THEN Get(file_reference_count, file_path, 0) + 1
                 ELSE Get(file_reference_count, file_path, 1) - 1
    IN  /\ file_reference_count' = Put(file_reference_count, file_path, count)
        /\ marked_for_deletion' =
              IF count > 0 THEN marked_for_deletion \cup {file_path}
              ELSE marked_for_deletion \ {file_path}

windowRest == <<video_files, alg, managerVars, metaVars, mode, max_frames, video_result,
                samplerVars, hashVars, dialogVars>>

\* the user clicks one of the checkboxes on display
ToggleCheckbox ==
    /\ \E p \in Paths : \E k \in DOMAIN pair_widgets[p] :
          /\ ~pair_widgets[p][k] => Get(file_reference_count, p, 0) < MaxMarks
          /\ pair_widgets' = [pair_widgets EXCEPT ![p][k] = ~pair_widgets[p][k]]
          /\ toggle_mark_deletion(p, ~pair_widgets[p][k])
    /\ deleted' = {}
    /\ UNCHANGED <<files, threshold, searchWork, requestVars, current_pairs, video1_path,
                   video2_path, windowRest>>

\* the checked checkboxes of a path
Checked(p) == {k \in DOMAIN pair_widgets[p] : pair_widgets[p][k]}

\* clear_all_marks, answered Yes: the set is cleared, then setChecked(False) on
\* every checkbox fires toggle_mark_deletion(path, False) for each checked one
ClearAllMarks ==
    /\ marked_for_deletion # {}
    /\ pair_widgets' = [p \in Paths |-> [k \in DOMAIN pair_widgets[p] |-> FALSE]]
    /\ LET touched == {p \in Paths : Checked(p) # {}}
           Left(p) == Get(file_reference_count, p, 1) - Cardinality(Checked(p))
       IN  /\ file_reference_count' =
                 {e \in file_reference_count : e[1] \notin touched}
                     \cup {<<p, Left(p)>> : p \in touched}
           /\ marked_for_deletion' = {p \in touched : Left(p) > 0}
    /\ deleted' = {}
    /\ UNCHANGED <<files, threshold, searchWork, requestVars, current_pairs, video1_path,
                   video2_path, windowRest>>

\* the files after os.remove succeeded on the paths of `removed`
Without(removed) == [p \in Paths |-> IF p \in removed THEN Gone ELSE files[p]]

\* the pairs whose two files exist in fs
Existing(pairs, fs) ==
    LET BothExist(e) == fs[e.a].exists /\ fs[e.b].exists
    IN  SelectSeq(pairs, BothExist)

\* delete_marked_files, answered Yes: os.remove succeeds on `removed` and
\* raises on the other marked files that exist
DeleteMarkedFiles ==
    /\ marked_for_deletion # {}
    /\ LET valid_files == {p \in marked_for_deletion : files[p].exists}
       IN  /\ valid_files # {}
           /\ \E removed \in SUBSET valid_files :
                 /\ files' = Without(removed)
                 /\ deleted' = removed
                 /\ current_pairs' = Existing(current_pairs, Without(removed))
                 /\ IF removed # {}
                    THEN create_pair_buttons(Existing(current_pairs, Without(removed)),
                                             Without(removed))
                    ELSE UNCHANGED <<marked_for_deletion, pair_widgets, file_reference_count>>
    /\ UNCHANGED <<threshold, searchWork, requestVars, video1_path, video2_path, windowRest>>

\* on_video_deleted(video_path), the file being gone: the mark, the pairs with
\* the path and the selections of the path are dropped, the widgets rebuilt
on_video_deleted(video_path, selected1, selected2) ==
    LET Other(e) == e.a # video_path /\ e.b # video_path
        new_pairs == SelectSeq(current_pairs, Other)
    IN  /\ current_pairs' = new_pairs
        /\ video1_path' = IF selected1 = video_path THEN None ELSE selected1
        /\ video2_path' = IF selected2 = video_path THEN None ELSE selected2
        /\ create_pair_buttons(new_pairs, Without({video_path}))

\* delete_video_file(video_num), answered Yes, os.remove did not raise
DeleteVideoFile ==
    /\ \E video_num \in {1, 2} :
          LET raw_path == IF video_num = 1 THEN video1_path ELSE video2_path
          IN  /\ raw_path # None
              /\ IF ~files[raw_path].exists
                 THEN /\ video1_path' = IF video_num = 1 THEN None ELSE video1_path
                      /\ video2_path' = IF video_num = 2 THEN None ELSE video2_path
                      /\ deleted' = {}
                      /\ UNCHANGED <<files, current_pairs, marked_for_deletion, pair_widgets,
                                     file_reference_count>>
                 ELSE /\ files' = Without({raw_path})
                      /\ deleted' = {raw_path}
                      /\ on_video_deleted(raw_path,
                                          IF video_num = 1 THEN None ELSE video1_path,
                                          IF video_num = 2 THEN None ELSE video2_path)
    /\ UNCHANGED <<threshold, searchWork, requestVars, windowRest>>

\* the pairs a comparison dialog can be opened on: the selection of the
\* compare tab and the pairs on display
DialogPairs ==
    {<<video1_path, video2_path>> : x \in {1}}
        \cup {<<current_pairs[k].a, current_pairs[k].b>> : k \in DOMAIN current_pairs}

\* _handle_dialog_delete_request(raw_path, dialog) with a removal that succeeded
HandleDialogDeleteRequest ==
    /\ \E pair \in DialogPairs : \E k \in {1, 2} :
          /\ pair[1] # None /\ pair[2] # None
          /\ files[pair[1]].exists /\ files[pair[2]].exists
          /\ files' = Without({pair[k]})
          /\ deleted' = {pair[k]}
          /\ on_video_deleted(pair[k], video1_path, video2_path)
    /\ UNCHANGED <<threshold, searchWork, requestVars, windowRest>>

\* select_video_for_comparison(video_num): the file dialog returns a file
SelectVideoForComparison ==
    /\ \E video_num \in {1, 2} : \E p \in Paths :
          /\ files[p].exists
          /\ video1_path' = IF video_num = 1 THEN p ELSE video1_path
          /\ video2_path' = IF video_num = 2 THEN p ELSE video2_path
    /\ deleted' = {}
    /\ UNCHANGED <<files, threshold, searchWork, requestVars, current_pairs, marked_for_deletion,
                   pair_widgets, file_reference_count, windowRest>>

\* the lists a scan can deliver: no pair, one pair, two pairs with a common file
ScanResults ==
    {<<>>,
     <<Entry("p1", "p2", One, "exact_duplicate", 1)>>,
     <<Entry("p1", "p2", One, "exact_duplicate", 1), Entry("p1", "p3", One, "comparison", 2)>>}

\* OptimizedScanThread.run as one step: a list over files that exist is sent
\* through result_signal, then finished_signal
ScanThreadRun ==
    /\ pc = "idle"
    /\ pc' = "finished"
    /\ \E list \in ScanResults :
          /\ Existing(list, files) = list
          /\ emitted' = <<list>>
          /\ EmitBoth(list)
    /\ UNCHANGED <<files, threshold, video_metadata, video_phashes, similar_pairs, candidate_pairs,
                   idx, returned, raised, prefiltered, compared, phash_calls>>
    /\ UNCHANGED <<threshold_text, scan_ui_enabled, handled, markVars, video1_path, video2_path,
                   windowRest>>

InitMarks ==
    /\ files = [p \in Paths |-> VidA]
    /\ video_files = <<"p1", "p2", "p3">>
    /\ alg = "simple"
    /\ threshold = SIMILARITY_THRESHOLD
    /\ pc = "none"
    /\ video_metadata = <<>>
    /\ video_phashes = <<>>
    /\ similar_pairs = <<>>
    /\ candidate_pairs = <<>>
    /\ idx = 0
    /\ returned = <<>>
    /\ emitted = <<>>
    /\ raised = "none"
    /\ prefiltered = {}
    /\ compared = {}
    /\ phash_calls = <<>>
    /\ ManagerInit
    /\ MetaIdle
    /\ PairIdle
    /\ SamplerIdle
    /\ HashIdle
    /\ GuiIdle

NextMarks ==
    \/ start_optimized_scan(DefaultText)
    \/ ScanThreadRun
    \/ OptimizedScanFinished
    \/ ScanThreadFinished
    \/ ToggleCheckbox
    \/ ClearAllMarks
    \/ DeleteMarkedFiles
    \/ DeleteVideoFile
    \/ HandleDialogDeleteRequest
    \/ SelectVideoForComparison

SpecMarks == InitMarks /\ [][NextMarks]_vars

\* the pair list names the path
Referenced(p) == \E k \in DOMAIN current_pairs : current_pairs[k].a = p \/ current_pairs[k].b = p

\* C25: after a deletion through the window (compare tab, comparison dialog,
\* delete_marked_files) no pair of current_pairs names the deleted file, it is
\* not marked and not selected as video1_path or video2_path; the pairs whose
\* files both still exist are kept, unchanged and in order.
C25_DeletedFilePurged ==
    /\ [](\A p \in deleted :
             /\ ~Referenced(p)
             /\ p \notin marked_for_deletion
             /\ video1_path # p
             /\ video2_path # p)
    /\ [][files' # files => current_pairs' = Existing(current_pairs, files')]_vars

\* C26: a file is in marked_for_deletion exactly when one of its checkboxes
\* on display is checked.
C26_MarkedIffChecked ==
    \A p \in Paths : p \in marked_for_deletion <=> Checked(p) # {}

====
